---- MODULE Spec2Model ----
(***************************************************************************)
(* Industry calculator of the EVE Online tracker: the quantity and time    *)
(* formulas and the recursive build expansion of src/lib/blueprints.ts.    *)
(*                                                                         *)
(* Numbers.  The source computes in IEEE doubles; the model computes the   *)
(* same expressions exactly, in fixed point:                               *)
(*   - blueprint ME / TE are whole percents, as in the source (0..10 and   *)
(*     0..20);                                                             *)
(*   - structure and rig bonuses are fractions, held in basis points       *)
(*     (0.01 is 100);                                                      *)
(*   - the security multiplier is held in tenths (1.9 is 19);              *)
(*   - a stacked efficiency is held in units of 1/EffDenom, so that        *)
(*     rig * security needs no rounding.                                   *)
(* calculateMaterialQuantity rounds to two decimals before Math.ceil, which *)
(* removes the doubles' representation error: on the inputs of this model   *)
(* the exact value is the value the source computes.  calculateJobTime has  *)
(* no such rounding: when the exact product is a whole number and the       *)
(* bonus is below the cap, the double can lie just above it and Math.ceil   *)
(* then returns one more than the exact ceiling modelled here.              *)
(***************************************************************************)
EXTENDS Integers, Sequences, FiniteSets, TLC

\* ------------------------------------------------------------------------
\* Bounds of the formula specifications
\* ------------------------------------------------------------------------
MaxBaseQty == 30
MaxQtyRuns == 20
MaxBaseTime == 12
MaxTimeRuns == 6

VARIABLES
    fArgs,          \* the arguments of a call of one of the two formulas
    fRet,           \* what the calls returned
    fpc,            \* position of the caller of the formulas
    request,        \* calculateRecursiveBuild's blueprintTypeId, settings, adjustedPrices
    pc,             \* position inside calculateRecursiveBuild
    stack,          \* the activations of processBlueprintRecursive, innermost last
    rawMaterials,   \* Map typeId -> MaterialRequirement
    buildSteps,     \* BuildStep[]
    excessTracker,  \* Map typeId -> surplus units
    result,         \* the CalculationResult returned by the current call
    unitResult,     \* the CalculationResult the caller kept from its first call
    unitRequest,    \* the request of that first call
    thrown,         \* the error the current call threw, "" when none
    body,           \* the CalculateRequest of the HTTP route, NoBody for a direct call
    response,       \* the HTTP response of the route
    fetched         \* what the route's three network calls answered

formulaVars == <<fArgs, fRet, fpc>>
engineVars == <<request, pc, stack, rawMaterials, buildSteps, excessTracker, result, unitResult, unitRequest, thrown, body, response, fetched>>
routeVars == <<body, response, fetched>>
vars == <<fArgs, fRet, fpc, request, pc, stack, rawMaterials, buildSteps, excessTracker, result, unitResult, unitRequest, thrown, body, response, fetched>>

\* no call of a formula has returned
NoRet == [batch |-> 0, single |-> 0, time |-> 0]

\* the engine was called directly, not by the route
NoBody == [blueprintTypeId |-> -1]
\* the route has not answered
NoResponse == [status |-> 0]
\* a network call that was not made
NotFetched == [kind |-> "pending"]
\* the route has made no network call
NoFetches ==
    [systemCostIndex |-> NotFetched, jobBaseCosts |-> NotFetched, prices |-> NotFetched]

\* ------------------------------------------------------------------------
\* Fixed-point units
\* ------------------------------------------------------------------------
EffDenom == 100000
PercentUnit == EffDenom \div 100
BasisPointUnit == EffDenom \div 10000
CentUnit == EffDenom \div 100

\* valid ranges documented on IndustrySettings
MaxBlueprintMe == 10
MaxBlueprintTe == 20

Max(a, b) == IF a >= b THEN a ELSE b
Min(a, b) == IF a <= b THEN a ELSE b
CeilDiv(n, d) == (n + d - 1) \div d

\* ------------------------------------------------------------------------
\* calculateMaterialQuantity
\* ------------------------------------------------------------------------
\* (blueprintMe / 100) + structureMeBonus + (rigMeBonus * securityMultiplier)
totalMeReduction(blueprintMe, structureMeBonus, rigMeBonus, securityMultiplier) ==
    blueprintMe * PercentUnit + structureMeBonus * BasisPointUnit
        + rigMeBonus * securityMultiplier

\* baseQuantity * runs * (1 - totalMeReduction), as a count of 1/EffDenom
rawQuantity(baseQuantity, runs, reduction) ==
    baseQuantity * runs * (EffDenom - reduction)

\* Math.round(rawQuantity * 100) / 100, as a count of hundredths;
\* Math.round rounds to the nearest integer, a half towards +infinity
roundToCents(raw) == (raw + CentUnit \div 2) \div CentUnit

\* a mutant: Math.floor where the source has Math.ceil
calculateMaterialQuantityFloor(baseQuantity, runs, blueprintMe, structureMeBonus, rigMeBonus, securityMultiplier) ==
    LET reduction == totalMeReduction(blueprintMe, structureMeBonus,
                                      rigMeBonus, securityMultiplier)
        rounded == roundToCents(rawQuantity(baseQuantity, runs, reduction))
    IN  Max(runs, rounded \div 100)

\* a mutant: the floor of one unit per run is dropped
calculateMaterialQuantityNoFloor(baseQuantity, runs, blueprintMe, structureMeBonus, rigMeBonus, securityMultiplier) ==
    LET reduction == totalMeReduction(blueprintMe, structureMeBonus,
                                      rigMeBonus, securityMultiplier)
        rounded == roundToCents(rawQuantity(baseQuantity, runs, reduction))
    IN  CeilDiv(rounded, 100)

\* a mutant: the efficiency is applied to one run and the result multiplied
calculateMaterialQuantityPerRun(baseQuantity, runs, blueprintMe, structureMeBonus, rigMeBonus, securityMultiplier) ==
    LET reduction == totalMeReduction(blueprintMe, structureMeBonus,
                                      rigMeBonus, securityMultiplier)
        rounded == roundToCents(rawQuantity(baseQuantity, 1, reduction))
    IN  Max(runs, runs * CeilDiv(rounded, 100))

calculateMaterialQuantity(baseQuantity, runs, blueprintMe, structureMeBonus, rigMeBonus, securityMultiplier) ==
    LET reduction == totalMeReduction(blueprintMe, structureMeBonus,
                                      rigMeBonus, securityMultiplier)
        rounded == roundToCents(rawQuantity(baseQuantity, runs, reduction))
        adjusted == CeilDiv(rounded, 100)
    IN  Max(runs, adjusted)

\* ------------------------------------------------------------------------
\* calculateJobTime
\* ------------------------------------------------------------------------
\* Cap at 90% reduction
TeCap == 9 * (EffDenom \div 10)

\* a mutant: the cap is forgotten
calculateJobTimeNoCap(baseTime, runs, blueprintTe, structureTeBonus, rigTeBonus, securityMultiplier) ==
    LET totalTeReduction == blueprintTe * PercentUnit
                              + structureTeBonus * BasisPointUnit
                              + rigTeBonus * securityMultiplier
    IN  CeilDiv(baseTime * runs * (EffDenom - totalTeReduction), EffDenom)

calculateJobTime(baseTime, runs, blueprintTe, structureTeBonus, rigTeBonus, securityMultiplier) ==
    LET totalTeReduction == blueprintTe * PercentUnit
                              + structureTeBonus * BasisPointUnit
                              + rigTeBonus * securityMultiplier
    IN  CeilDiv(baseTime * runs * (EffDenom - Min(totalTeReduction, TeCap)),
                EffDenom)

\* ------------------------------------------------------------------------
\* The bonus tables.  structures.json is data, not code; the values are those
\* of getDefaultSettings (Raitaru, T1 rig, highsec) and of the options the
\* calculate route accepts.
\* ------------------------------------------------------------------------
industryStructures ==
    ("npc_station" :> [meBonus |-> 0,   teBonus |-> 0,    jobCostBonus |-> 0])
 @@ ("raitaru"     :> [meBonus |-> 100, teBonus |-> 1500, jobCostBonus |-> 3])
 @@ ("azbel"       :> [meBonus |-> 100, teBonus |-> 2000, jobCostBonus |-> 4])
 @@ ("sotiyo"      :> [meBonus |-> 100, teBonus |-> 3000, jobCostBonus |-> 5])

rigs ==
    ("none" :> [meBonus |-> 0,   teBonus |-> 0])
 @@ ("t1"   :> [meBonus |-> 200, teBonus |-> 2000])
 @@ ("t2"   :> [meBonus |-> 240, teBonus |-> 2400])

\* 1.0 for highsec, 1.9 for low, 2.1 for null and wormhole space
securityMultipliers ==
    ("highsec" :> 10) @@ ("lowsec" :> 19) @@ ("nullsec" :> 21) @@ ("wormhole" :> 21)

StructureBonuses == {industryStructures[s] : s \in DOMAIN industryStructures}

RigBonuses == {rigs[r] : r \in DOMAIN rigs}

SecurityMultipliers == {securityMultipliers[c] : c \in DOMAIN securityMultipliers}

\* What a call of a resolver does: it returns a value, it returns undefined,
\* or it throws.
Returned(v) == [kind |-> "value", value |-> v]
ReturnedUndefined == [kind |-> "undefined"]
Threw(error) == [kind |-> "throw", error |-> error]

\* structures.industryStructures[structureType] is undefined for a name without
\* an entry, and reading structure.meBonus then throws a TypeError
getStructureBonus(structureType) ==
    IF structureType \in DOMAIN industryStructures
    THEN Returned(industryStructures[structureType])
    ELSE Threw("TypeError")

getRigBonus(rigType) ==
    IF rigType \in DOMAIN rigs THEN Returned(rigs[rigType]) ELSE Threw("TypeError")

\* return structures.securityMultipliers[securityType]
getSecurityMultiplier(securityType) ==
    IF securityType \in DOMAIN securityMultipliers
    THEN Returned(securityMultipliers[securityType])
    ELSE ReturnedUndefined

\* getDefaultSettings(); componentMe and componentTe come from structures.json
getDefaultSettings ==
    [ blueprintMe |-> 0, blueprintTe |-> 0, runs |-> 1, quantity |-> 1,
      systemCostIndex |-> 5, facilityTax |-> 0,
      structureBonus |-> [meBonus |-> 100, teBonus |-> 1500, jobCostBonus |-> 3],
      rigBonus |-> [meBonus |-> 200, teBonus |-> 2000],
      securityMultiplier |-> 10,
      componentMe |-> MaxBlueprintMe, componentTe |-> MaxBlueprintTe ]

\* ------------------------------------------------------------------------
\* Bounds of the engine specification
\* ------------------------------------------------------------------------
MaxRuns == 4
MaxBatches == 3
\* the activations the call stack of the runtime holds
MaxStackDepth == 6

\* ------------------------------------------------------------------------
\* Reference data: a store in the shape download-sde.ts writes (blueprints
\* keyed by blueprintTypeId, one producing blueprint per product, only
\* manufacturing and reaction activities, every blueprint with a material
\* and a positive producedQuantity).
\* ------------------------------------------------------------------------
ACTIVITY_MANUFACTURING == 1
ACTIVITY_REACTION == 11

\* type ids
TypeX == 1
TypeZ == 2
TypeY == 3
TypeT == 4
TypeA == 5
TypeB == 6
TypeU == 7
TypeW == 8
TypeR == 9
TypeS == 10
TypeV == 11
TypeQ == 12
TypeC == 13
TypeD == 14
TypeN == 15

Mat(typeId, quantity) == [typeId |-> typeId, quantity |-> quantity]

Bp(id, product, activity, time, materials, produced) ==
    [ blueprintTypeId |-> id, productTypeId |-> product, activityId |-> activity,
      time |-> time, materials |-> materials, producedQuantity |-> produced ]

blueprints ==
    (103 :> Bp(103, TypeY, ACTIVITY_MANUFACTURING, 6, <<Mat(TypeZ, 3)>>, 2))
 @@ (104 :> Bp(104, TypeT, ACTIVITY_MANUFACTURING, 10,
               <<Mat(TypeX, 10), Mat(TypeY, 5)>>, 1))
 @@ (105 :> Bp(105, TypeA, ACTIVITY_MANUFACTURING, 5,
               <<Mat(TypeB, 7), Mat(TypeX, 2)>>, 1))
 @@ (106 :> Bp(106, TypeB, ACTIVITY_MANUFACTURING, 3,
               <<Mat(TypeZ, 3), Mat(TypeX, 1)>>, 10))
 @@ (107 :> Bp(107, TypeU, ACTIVITY_MANUFACTURING, 20,
               <<Mat(TypeA, 1), Mat(TypeB, 2), Mat(TypeX, 5)>>, 1))
 @@ (108 :> Bp(108, TypeW, ACTIVITY_MANUFACTURING, 15,
               <<Mat(TypeB, 3), Mat(TypeA, 1), Mat(TypeZ, 4), Mat(TypeY, 1)>>, 1))
 @@ (109 :> Bp(109, TypeR, ACTIVITY_REACTION, 8,
               <<Mat(TypeZ, 5), Mat(TypeS, 2), Mat(TypeY, 1)>>, 4))
 @@ (110 :> Bp(110, TypeS, ACTIVITY_REACTION, 4, <<Mat(TypeX, 4)>>, 5))
 @@ (111 :> Bp(111, TypeV, ACTIVITY_MANUFACTURING, 12,
               <<Mat(TypeR, 3), Mat(TypeY, 1), Mat(TypeQ, 2), Mat(TypeN, 1)>>, 1))
 @@ (114 :> Bp(114, TypeN, ACTIVITY_MANUFACTURING, 2, <<Mat(TypeZ, 2)>>, 3))
    \* corrupt reference data: C is made from D and D from C
 @@ (112 :> Bp(112, TypeC, ACTIVITY_MANUFACTURING, 7,
               <<Mat(TypeX, 2), Mat(TypeD, 1)>>, 1))
 @@ (113 :> Bp(113, TypeD, ACTIVITY_MANUFACTURING, 9, <<Mat(TypeC, 1)>>, 1))

blueprintsByProduct ==
    [ t \in {blueprints[b].productTypeId : b \in DOMAIN blueprints} |->
        CHOOSE b \in DOMAIN blueprints : blueprints[b].productTypeId = t ]

\* name and volume per unit; TypeQ and TypeN, the product of blueprint 114,
\* have no entry
invTypes ==
    (TypeX :> [name |-> "X", volume |-> 1])
 @@ (TypeZ :> [name |-> "Z", volume |-> 2])
 @@ (TypeY :> [name |-> "Y", volume |-> 5])
 @@ (TypeT :> [name |-> "T", volume |-> 50])
 @@ (TypeA :> [name |-> "A", volume |-> 10])
 @@ (TypeB :> [name |-> "B", volume |-> 3])
 @@ (TypeU :> [name |-> "U", volume |-> 100])
 @@ (TypeW :> [name |-> "W", volume |-> 100])
 @@ (TypeR :> [name |-> "R", volume |-> 4])
 @@ (TypeS :> [name |-> "S", volume |-> 1])
 @@ (TypeV :> [name |-> "V", volume |-> 80])
 @@ (TypeC :> [name |-> "C", volume |-> 6])
 @@ (TypeD :> [name |-> "D", volume |-> 6])

\* a blueprint id with no entry in the store
MissingBlueprintId == 999

TypeIds == TypeX..TypeN

\* getBlueprint(id) is not null
HasBlueprint(blueprintTypeId) == blueprintTypeId \in DOMAIN blueprints

\* getBlueprintByProduct(id) is not null
HasBlueprintByProduct(productTypeId) ==
    /\ productTypeId \in DOMAIN blueprintsByProduct
    /\ HasBlueprint(blueprintsByProduct[productTypeId])

getBlueprintByProduct(productTypeId) == blueprints[blueprintsByProduct[productTypeId]]

\* a mutant: a type without TypeInfo takes one unit of volume
unitVolumeAtLeastOne(typeId) ==
    IF typeId \in DOMAIN invTypes THEN invTypes[typeId].volume ELSE 1

\* typeInfo?.volume || 0
unitVolume(typeId) ==
    IF typeId \in DOMAIN invTypes THEN invTypes[typeId].volume ELSE 0

getTypeName(typeId) ==
    IF typeId \in DOMAIN invTypes THEN invTypes[typeId].name
    ELSE "Unknown (" \o ToString(typeId) \o ")"

canBeBuilt(typeId) == typeId \in DOMAIN blueprintsByProduct

\* ------------------------------------------------------------------------
\* A Map is the sequence of its entries [key, value] in insertion order
\* ------------------------------------------------------------------------
MapKeys(m) == {m[i].key : i \in 1..Len(m)}
MapHas(m, k) == k \in MapKeys(m)
MapGet(m, k) == m[CHOOSE i \in 1..Len(m) : m[i].key = k].value
\* Map.set: an existing key keeps its place
MapSet(m, k, v) ==
    IF MapHas(m, k)
    THEN [i \in 1..Len(m) |-> IF m[i].key = k THEN [key |-> k, value |-> v] ELSE m[i]]
    ELSE Append(m, [key |-> k, value |-> v])
\* excessTracker.get(typeId) || 0
excessOf(tracker, typeId) == IF MapHas(tracker, typeId) THEN MapGet(tracker, typeId) ELSE 0
\* a mutant: a type without a price is charged one ISK
priceOfAtLeastOne(prices, typeId) == IF typeId \in DOMAIN prices THEN prices[typeId] ELSE 1

\* adjustedPrices.get(typeId) || 0
priceOf(prices, typeId) == IF typeId \in DOMAIN prices THEN prices[typeId] ELSE 0

RECURSIVE SumSeq(_, _)
\* array.reduce((sum, x) => sum + f(x), 0), f given as a sequence of values
SumSeq(seq, i) == IF i > Len(seq) THEN 0 ELSE seq[i] + SumSeq(seq, i + 1)

\* ------------------------------------------------------------------------
\* The steps of processBlueprintRecursive
\* ------------------------------------------------------------------------
\* a mutant: no material is expanded
shouldRecurseNever(topActivityId, typeId) == FALSE

\* a mutant: every material with a producing blueprint is expanded
shouldRecurseAlways(topActivityId, typeId) == HasBlueprintByProduct(typeId)

shouldRecurse(topActivityId, typeId) ==
    LET isTopLevelReaction == topActivityId = ACTIVITY_REACTION
        isComponentReaction ==
            getBlueprintByProduct(typeId).activityId = ACTIVITY_REACTION
    IN  /\ HasBlueprintByProduct(typeId)
        /\ \/ isTopLevelReaction /\ isComponentReaction
           \/ ~isTopLevelReaction /\ ~isComponentReaction

\* a mutant: one banked unit is taken, whatever is needed
usedExcessOne(excess, needed) == IF excess > 0 THEN 1 ELSE 0

\* a mutant: the banked surplus is ignored
usedExcessNone(excess, needed) == 0

\* Math.min(excess, needed), when excess > 0
usedExcess(excess, needed) == IF excess > 0 THEN Min(excess, needed) ELSE 0

\* a mutant: a started batch that is not filled is not run
componentRunsFloor(needed, producedQuantity) == Max(1, needed \div producedQuantity)

\* a mutant: one run too many when needed is a multiple of the batch size
componentRunsOffByOne(needed, producedQuantity) == needed \div producedQuantity + 1

\* Math.ceil(needed / componentBp.producedQuantity)
componentRuns(needed, producedQuantity) == CeilDiv(needed, producedQuantity)

\* a mutant: a second occurrence replaces the entry
mergeRawMaterialOverwrite(raw, materialReq, adjustedQty, baseQty) ==
    MapSet(raw, materialReq.typeId, materialReq)

\* rawMaterials.get / set of the else branch
mergeRawMaterial(raw, materialReq, adjustedQty, baseQty) ==
    IF MapHas(raw, materialReq.typeId)
    THEN LET existing == MapGet(raw, materialReq.typeId)
             total == existing.adjustedQuantity + adjustedQty
         IN  MapSet(raw, materialReq.typeId,
                 [existing EXCEPT !.adjustedQuantity = total,
                                  !.baseQuantity = @ + baseQty,
                                  !.volume = unitVolume(materialReq.typeId) * total])
    ELSE MapSet(raw, materialReq.typeId, materialReq)

\* baseJobCost * systemCostIndex * 0.02 * runs * (1 - jobCostBonus) * (1 + facilityTax),
\* as a count of 1/JobCostDenom; systemCostIndex, jobCostBonus and facilityTax
\* in percents
JobCostDenom == 100000000
jobCostOf(stepMaterials, prices, runs, settings) ==
    LET baseJobCost ==
            SumSeq([i \in 1..Len(stepMaterials) |->
                       priceOf(prices, stepMaterials[i].typeId)
                           * stepMaterials[i].adjustedQuantity], 1)
    IN  baseJobCost * settings.systemCostIndex * 2 * runs
            * (100 - settings.structureBonus.jobCostBonus)
            * (100 + settings.facilityTax)

\* a mutant: the volume of a raw material is not scaled
scaleRawMaterialNoVolume(mat, n) ==
    [mat EXCEPT !.baseQuantity = @ * n, !.adjustedQuantity = @ * n]

\* mat.baseQuantity *= n; mat.adjustedQuantity *= n; mat.volume *= n
scaleRawMaterial(mat, n) ==
    [mat EXCEPT !.baseQuantity = @ * n, !.adjustedQuantity = @ * n, !.volume = @ * n]

scaleStepMaterial(mat, n) ==
    [mat EXCEPT !.baseQuantity = @ * n, !.adjustedQuantity = @ * n, !.volume = @ * n]

\* a mutant: the time of a step is not scaled
scaleStepNoTime(step, n) ==
    [step EXCEPT !.runs = @ * n, !.producedQuantity = @ * n,
                 !.excessQuantity = @ * n, !.jobCost = @ * n,
                 !.materials = [i \in 1..Len(@) |-> scaleStepMaterial(@[i], n)]]

\* the body of both step loops of the post-pass
scaleStep(step, n) ==
    [step EXCEPT !.runs = @ * n, !.producedQuantity = @ * n,
                 !.excessQuantity = @ * n, !.time = @ * n, !.jobCost = @ * n,
                 !.materials = [i \in 1..Len(@) |-> scaleStepMaterial(@[i], n)]]

\* ------------------------------------------------------------------------
\* calculateRecursiveBuild
\* ------------------------------------------------------------------------
NoResult ==
    [ targetBlueprint |-> 0, rawMaterials |-> <<>>, buildSteps |-> <<>>,
      totalTime |-> 0, totalJobCost |-> 0, excessMaterials |-> <<>> ]

Frame(bp, runs, isTopLevel, me, te) ==
    [ bp |-> bp, runs |-> runs, isTopLevel |-> isTopLevel, me |-> me, te |-> te,
      next |-> 1, stepMaterials |-> <<>> ]

TopFrame == stack[Len(stack)]
ReplaceTop(f) == [stack EXCEPT ![Len(stack)] = f]

\* throw new Error(`Blueprint ${blueprintTypeId} not found`)
BlueprintNotFound ==
    /\ pc = "call"
    /\ ~HasBlueprint(request.blueprintTypeId)
    /\ pc' = "error"
    /\ thrown' = "BlueprintNotFound"
    /\ UNCHANGED <<request, stack, rawMaterials, buildSteps, excessTracker,
                   result, unitResult, unitRequest>>
    /\ UNCHANGED routeVars
    /\ UNCHANGED formulaVars

\* a mutant: the ledger is shared by the calls
StartBuildSharedLedger ==
    /\ pc = "call"
    /\ HasBlueprint(request.blueprintTypeId)
    /\ rawMaterials' = <<>>
    /\ buildSteps' = <<>>
    /\ stack' = << Frame(request.blueprintTypeId, request.settings.runs, TRUE,
                         request.settings.blueprintMe, request.settings.blueprintTe) >>
    /\ pc' = "expand"
    /\ UNCHANGED <<request, result, unitResult, unitRequest, excessTracker>>
    /\ UNCHANGED <<thrown, body, response, fetched>>
    /\ UNCHANGED formulaVars

\* a mutant: the lookup of the blueprint is not checked
StartBuildUnchecked ==
    /\ pc = "call"
    /\ rawMaterials' = <<>>
    /\ buildSteps' = <<>>
    /\ excessTracker' = <<>>
    /\ stack' = << Frame(request.blueprintTypeId, request.settings.runs, TRUE,
                         request.settings.blueprintMe, request.settings.blueprintTe) >>
    /\ pc' = "expand"
    /\ UNCHANGED <<request, result, unitResult, unitRequest>>
    /\ UNCHANGED <<thrown, body, response, fetched>>
    /\ UNCHANGED formulaVars

\* the accumulators are created and the top-level activation starts
StartBuild ==
    /\ pc = "call"
    /\ HasBlueprint(request.blueprintTypeId)
    /\ rawMaterials' = <<>>
    /\ buildSteps' = <<>>
    /\ excessTracker' = <<>>
    /\ stack' = << Frame(request.blueprintTypeId, request.settings.runs, TRUE,
                         request.settings.blueprintMe, request.settings.blueprintTe) >>
    /\ pc' = "expand"
    /\ UNCHANGED <<request, result, unitResult, unitRequest>>
    /\ UNCHANGED <<thrown, body, response, fetched>>
    /\ UNCHANGED formulaVars

\* a mutant: the call is made for `blueprint`, the target, which is in scope
recursiveCallOfTarget(componentBp, runs, settings) ==
    Frame(request.blueprintTypeId, runs, FALSE, settings.componentMe, settings.componentTe)

\* a mutant: the component is run once more than was counted
recursiveCallExtraRun(componentBp, runs, settings) ==
    Frame(componentBp.blueprintTypeId, runs + 1, FALSE, settings.componentMe, settings.componentTe)

\* a mutant: the component inherits the efficiency of the top blueprint
recursiveCallTopEfficiency(componentBp, runs, settings) ==
    Frame(componentBp.blueprintTypeId, runs, FALSE, settings.blueprintMe, settings.blueprintTe)

\* processBlueprintRecursive(componentBp, componentRuns, false, componentMe, componentTe)
recursiveCall(componentBp, runs, settings) ==
    Frame(componentBp.blueprintTypeId, runs, FALSE, settings.componentMe, settings.componentTe)

\* the next material line of the innermost activation leads to a recursive call
RecursiveCallNext ==
    /\ pc = "expand"
    /\ TopFrame.next <= Len(blueprints[TopFrame.bp].materials)
    /\ LET f == TopFrame
           mat == blueprints[f.bp].materials[f.next]
           adjustedQty ==
               calculateMaterialQuantity(mat.quantity, f.runs, f.me,
                   request.settings.structureBonus.meBonus,
                   request.settings.rigBonus.meBonus,
                   request.settings.securityMultiplier)
           excess == excessOf(excessTracker, mat.typeId)
       IN  /\ shouldRecurse(blueprints[request.blueprintTypeId].activityId, mat.typeId)
           /\ adjustedQty - usedExcess(excess, adjustedQty) > 0

\* the recursive call finds the call stack of the runtime full: a RangeError
\* (Maximum call stack size exceeded) leaves calculateRecursiveBuild
StackOverflow ==
    /\ RecursiveCallNext
    /\ Len(stack) >= MaxStackDepth
    /\ pc' = "error"
    /\ thrown' = "RangeError"
    /\ UNCHANGED <<request, stack, rawMaterials, buildSteps, excessTracker,
                   result, unitResult, unitRequest>>
    /\ UNCHANGED routeVars
    /\ UNCHANGED formulaVars

\* one iteration of `for (const mat of bp.materials)`, up to the recursive call
ProcessMaterial ==
    /\ pc = "expand"
    /\ TopFrame.next <= Len(blueprints[TopFrame.bp].materials)
    /\ ~(RecursiveCallNext /\ Len(stack) >= MaxStackDepth)
    /\ LET f == TopFrame
           mat == blueprints[f.bp].materials[f.next]
           settings == request.settings
           adjustedQty ==
               calculateMaterialQuantity(mat.quantity, f.runs, f.me,
                   settings.structureBonus.meBonus, settings.rigBonus.meBonus,
                   settings.securityMultiplier)
           materialReq ==
               [ typeId |-> mat.typeId,
                 name |-> getTypeName(mat.typeId),
                 baseQuantity |-> mat.quantity * f.runs,
                 adjustedQuantity |-> adjustedQty,
                 volume |-> unitVolume(mat.typeId) * adjustedQty,
                 isRawMaterial |-> ~canBeBuilt(mat.typeId) ]
           advanced == [f EXCEPT !.next = @ + 1,
                                 !.stepMaterials = Append(@, materialReq)]
           topActivityId == blueprints[request.blueprintTypeId].activityId
       IN  IF shouldRecurse(topActivityId, mat.typeId)
           THEN LET componentBp == getBlueprintByProduct(mat.typeId)
                    excess == excessOf(excessTracker, mat.typeId)
                    used == usedExcess(excess, adjustedQty)
                    needed == adjustedQty - used
                    afterUse == IF excess > 0
                                THEN MapSet(excessTracker, mat.typeId, excess - used)
                                ELSE excessTracker
                    runs == componentRuns(needed, componentBp.producedQuantity)
                    produced == runs * componentBp.producedQuantity
                    newExcess == produced - needed
                IN  /\ excessTracker' =
                           IF needed > 0 /\ newExcess > 0
                           THEN MapSet(afterUse, mat.typeId,
                                       excessOf(afterUse, mat.typeId) + newExcess)
                           ELSE afterUse
                    /\ stack' =
                           IF needed > 0
                           THEN Append(ReplaceTop(advanced),
                                       recursiveCall(componentBp, runs, settings))
                           ELSE ReplaceTop(advanced)
                    /\ UNCHANGED rawMaterials
           ELSE /\ rawMaterials' =
                       mergeRawMaterial(rawMaterials, materialReq, adjustedQty,
                                        mat.quantity * f.runs)
                /\ stack' = ReplaceTop(advanced)
                /\ UNCHANGED excessTracker
    /\ UNCHANGED <<request, pc, buildSteps, result, unitResult, unitRequest>>
    /\ UNCHANGED <<thrown, body, response, fetched>>
    /\ UNCHANGED formulaVars

\* a mutant: buildSteps.push(step)
push(steps, step) == Append(steps, step)

\* buildSteps.unshift(step)
unshift(steps, step) == <<step>> \o steps

\* a mutant: a step reports half of what is banked
excessProducedHalf(isTopLevel, tracker, productTypeId) ==
    IF isTopLevel THEN 0 ELSE excessOf(tracker, productTypeId) \div 2

\* a mutant: no step reports a surplus
excessProducedNone(isTopLevel, tracker, productTypeId) == 0

\* isTopLevel ? 0 : excessTracker.get(bp.productTypeId) || 0
excessProduced(isTopLevel, tracker, productTypeId) ==
    IF isTopLevel THEN 0 ELSE excessOf(tracker, productTypeId)

\* after the loop: job time, job cost, the step is put first, the activation returns
FinishStep ==
    /\ pc = "expand"
    /\ TopFrame.next > Len(blueprints[TopFrame.bp].materials)
    /\ LET f == TopFrame
           bp == blueprints[f.bp]
           settings == request.settings
           jobTime == calculateJobTime(bp.time, f.runs, f.te,
                          settings.structureBonus.teBonus, settings.rigBonus.teBonus,
                          settings.securityMultiplier)
           jobCost == jobCostOf(f.stepMaterials, request.adjustedPrices, f.runs, settings)
           totalProduced == f.runs * bp.producedQuantity
           step == [ blueprintTypeId |-> bp.blueprintTypeId,
                     productTypeId |-> bp.productTypeId,
                     runs |-> f.runs,
                     producedQuantity |-> totalProduced,
                     excessQuantity |->
                         excessProduced(f.isTopLevel, excessTracker, bp.productTypeId),
                     time |-> jobTime,
                     jobCost |-> jobCost,
                     materials |-> f.stepMaterials ]
       IN  /\ buildSteps' = unshift(buildSteps, step)
           /\ stack' = SubSeq(stack, 1, Len(stack) - 1)
           /\ pc' = IF Len(stack) = 1 THEN "scale" ELSE "expand"
    /\ UNCHANGED <<request, rawMaterials, excessTracker, result, unitResult, unitRequest>>
    /\ UNCHANGED <<thrown, body, response, fetched>>
    /\ UNCHANGED formulaVars

\* the post-pass `if (numberOfBpcs > 1) { ... }`
ScaleBatches ==
    /\ pc = "scale"
    /\ LET numberOfBpcs == request.settings.quantity
           topId == blueprints[request.blueprintTypeId].blueprintTypeId
           isTop(i) == buildSteps[i].blueprintTypeId = topId
           \* buildSteps.find(s => s.blueprintTypeId === blueprint.blueprintTypeId)
           topLevelStep == IF \E i \in 1..Len(buildSteps) : isTop(i)
                           THEN CHOOSE i \in 1..Len(buildSteps) :
                                    isTop(i) /\ \A j \in 1..(i - 1) : ~isTop(j)
                           ELSE 0
           afterTop == [i \in 1..Len(buildSteps) |->
                           IF i = topLevelStep THEN scaleStep(buildSteps[i], numberOfBpcs)
                           ELSE buildSteps[i]]
       IN  IF numberOfBpcs > 1
           THEN /\ rawMaterials' =
                       [i \in 1..Len(rawMaterials) |->
                           [rawMaterials[i] EXCEPT
                               !.value = scaleRawMaterial(@, numberOfBpcs)]]
                /\ excessTracker' =
                       [i \in 1..Len(excessTracker) |->
                           [excessTracker[i] EXCEPT !.value = @ * numberOfBpcs]]
                /\ buildSteps' =
                       [i \in 1..Len(buildSteps) |->
                           IF afterTop[i].blueprintTypeId # topId
                           THEN scaleStep(afterTop[i], numberOfBpcs)
                           ELSE afterTop[i]]
           ELSE UNCHANGED <<rawMaterials, excessTracker, buildSteps>>
    /\ pc' = "assemble"
    /\ UNCHANGED <<request, stack, result, unitResult, unitRequest>>
    /\ UNCHANGED <<thrown, body, response, fetched>>
    /\ UNCHANGED formulaVars

\* one element of excessMaterials
ExcessEntry(entry) ==
    [ typeId |-> entry.key, name |-> getTypeName(entry.key),
      quantity |-> entry.value, volume |-> unitVolume(entry.key) * entry.value ]

\* a mutant: every entry of the ledger is listed
HasSurplusAlways(entry) == TRUE

\* .filter(([, qty]) => qty > 0)
HasSurplus(entry) == entry.value > 0

\* a mutant: the total is the time of the final job alone
totalTimeOfTopLevel(steps) == IF steps = <<>> THEN 0 ELSE steps[1].time

\* buildSteps.reduce((sum, step) => sum + step.time, 0)
totalTimeOf(steps) == SumSeq([i \in 1..Len(steps) |-> steps[i].time], 1)

\* buildSteps.reduce((sum, step) => sum + step.jobCost, 0)
totalJobCostOf(steps) == SumSeq([i \in 1..Len(steps) |-> steps[i].jobCost], 1)

\* excessMaterials, the totals and the returned object
ReturnResult ==
    /\ pc = "assemble"
    /\ LET kept == SelectSeq(excessTracker, HasSurplus)
       IN  result' =
               [ targetBlueprint |-> request.blueprintTypeId,
                 rawMaterials |-> [i \in 1..Len(rawMaterials) |-> rawMaterials[i].value],
                 buildSteps |-> buildSteps,
                 totalTime |-> totalTimeOf(buildSteps),
                 totalJobCost |-> totalJobCostOf(buildSteps),
                 excessMaterials |-> [i \in 1..Len(kept) |-> ExcessEntry(kept[i])] ]
    /\ pc' = "done"
    /\ UNCHANGED <<request, stack, rawMaterials, buildSteps, excessTracker, unitResult, unitRequest>>
    /\ UNCHANGED <<thrown, body, response, fetched>>
    /\ UNCHANGED formulaVars

\* the caller keeps the result of its first call, made for one batch, and asks
\* again for the same blueprint and settings with numberOfBatches = quantity
Recalculate(quantity) ==
    /\ pc = "done"
    /\ body = NoBody
    /\ unitResult = NoResult
    /\ unitResult' = result
    /\ unitRequest' = request
    /\ request' = [request EXCEPT !.settings.quantity = quantity]
    /\ result' = NoResult
    /\ pc' = "call"
    /\ UNCHANGED <<stack, rawMaterials, buildSteps, excessTracker>>
    /\ UNCHANGED <<thrown, body, response, fetched>>
    /\ UNCHANGED formulaVars

\* the caller keeps the result of its first call and asks again for the same
\* blueprint and settings with another price map
Reprice(adjustedPrices) ==
    /\ pc = "done"
    /\ body = NoBody
    /\ unitResult = NoResult
    /\ adjustedPrices # request.adjustedPrices
    /\ unitResult' = result
    /\ unitRequest' = request
    /\ request' = [request EXCEPT !.adjustedPrices = adjustedPrices]
    /\ result' = NoResult
    /\ pc' = "call"
    /\ UNCHANGED <<stack, rawMaterials, buildSteps, excessTracker>>
    /\ UNCHANGED <<thrown, body, response, fetched>>
    /\ UNCHANGED formulaVars

\* ------------------------------------------------------------------------
\* POST /api/industry/calculate
\* ------------------------------------------------------------------------
\* a numeric field the body does not carry
Absent == -1

\* body.field ?? fallback
OrDefault(field, fallback) == IF field = Absent THEN fallback ELSE field

\* `if (!body.blueprintTypeId)`: 400
RouteMissingId ==
    /\ pc = "post"
    /\ body.blueprintTypeId = 0
    /\ response' = [status |-> 400]
    /\ pc' = "responded"
    /\ UNCHANGED <<request, stack, rawMaterials, buildSteps, excessTracker,
                   result, unitResult, unitRequest, thrown, body, fetched>>
    /\ UNCHANGED formulaVars

\* `if (!blueprint)`: 404
RouteNotFound ==
    /\ pc = "post"
    /\ body.blueprintTypeId # 0
    /\ ~HasBlueprint(body.blueprintTypeId)
    /\ response' = [status |-> 404]
    /\ pc' = "responded"
    /\ UNCHANGED <<request, stack, rawMaterials, buildSteps, excessTracker,
                   result, unitResult, unitRequest, thrown, body, fetched>>
    /\ UNCHANGED formulaVars

\* the settings are built from the body and the defaults
RouteBuildSettings ==
    /\ pc = "post"
    /\ body.blueprintTypeId # 0
    /\ HasBlueprint(body.blueprintTypeId)
    /\ LET defaults == getDefaultSettings
           structure == IF body.structureType # ""
                        THEN getStructureBonus(body.structureType)
                        ELSE Returned(defaults.structureBonus)
           rig == IF body.rigType # ""
                  THEN getRigBonus(body.rigType)
                  ELSE Returned(defaults.rigBonus)
           security == IF body.securityType # ""
                       THEN getSecurityMultiplier(body.securityType)
                       ELSE Returned(defaults.securityMultiplier)
       IN  IF structure.kind = "throw" \/ rig.kind = "throw"
           THEN /\ pc' = "error"
                /\ thrown' = "TypeError"
                /\ UNCHANGED request
           ELSE /\ request' =
                       [ blueprintTypeId |-> body.blueprintTypeId,
                         settings |->
                           [ blueprintMe |-> OrDefault(body.blueprintMe, defaults.blueprintMe),
                             blueprintTe |-> OrDefault(body.blueprintTe, defaults.blueprintTe),
                             runs |-> OrDefault(body.runs, defaults.runs),
                             quantity |-> OrDefault(body.quantity, 1),
                             systemCostIndex |-> defaults.systemCostIndex,
                             facilityTax |-> OrDefault(body.facilityTax, 0),
                             structureBonus |-> structure.value,
                             rigBonus |-> rig.value,
                             securityMultiplier |-> security.value,
                             componentMe |-> defaults.componentMe,
                             componentTe |-> defaults.componentTe ],
                         adjustedPrices |-> [t \in {} |-> 0] ]
                /\ pc' = "fetchIndex"
                /\ UNCHANGED thrown
    /\ UNCHANGED <<stack, rawMaterials, buildSteps, excessTracker, result,
                   unitResult, unitRequest, body, response, fetched>>
    /\ UNCHANGED formulaVars

\* `await getSystemCostIndex(...)` inside its try: the answer replaces the
\* default, a failure leaves it; then calculateRecursiveBuild is called with
\* an empty price map
RouteFetchSystemCostIndex(outcome) ==
    /\ pc = "fetchIndex"
    /\ request' = IF outcome.kind = "value"
                  THEN [request EXCEPT !.settings.systemCostIndex = outcome.value]
                  ELSE request
    /\ fetched' = [fetched EXCEPT !.systemCostIndex = outcome]
    /\ pc' = "call"
    /\ UNCHANGED <<stack, rawMaterials, buildSteps, excessTracker, result,
                   unitResult, unitRequest, thrown, body, response>>
    /\ UNCHANGED formulaVars

\* the handler's catch: 500
RouteCatch ==
    /\ pc = "error"
    /\ body # NoBody
    /\ response' = [status |-> 500]
    /\ pc' = "responded"
    /\ UNCHANGED <<request, stack, rawMaterials, buildSteps, excessTracker,
                   result, unitResult, unitRequest, thrown, body, fetched>>
    /\ UNCHANGED formulaVars

\* The route's money: a job cost and a build cost are counts of 1/RouteCostDenom
\* ISK (systemCostIndex, jobCostBonus and facilityTax are percents); prices and
\* price totals are whole ISK.
RouteCostDenom == 1000000

\* jobBaseCosts.get(step.blueprintTypeId) || 0
baseCostOf(jobBaseCosts, blueprintTypeId) ==
    IF blueprintTypeId \in DOMAIN jobBaseCosts THEN jobBaseCosts[blueprintTypeId] ELSE 0

\* baseCost * systemCostIndex * step.runs * (1 - jobCostBonus) * (1 + facilityTax)
routeJobCost(baseCost, settings, runs) ==
    baseCost * settings.systemCostIndex * runs
        * (100 - settings.structureBonus.jobCostBonus) * (100 + settings.facilityTax)

\* priceMap.get(typeId) || { buy: 0, sell: 0 }
pricesOf(priceMap, typeId) ==
    IF typeId \in DOMAIN priceMap THEN priceMap[typeId] ELSE [buy |-> 0, sell |-> 0]

\* materialCost + step.jobCost of one build step
stepBuildCost(step, jobCost, priceMap) ==
    SumSeq([j \in 1..Len(step.materials) |->
               pricesOf(priceMap, step.materials[j].typeId).sell
                   * step.materials[j].adjustedQuantity], 1) * RouteCostDenom
        + jobCost

\* a mutant: the target's own step is not skipped
isMainProductNever(step, productTypeId) == FALSE

\* `if (step.productTypeId === blueprint.productTypeId) continue`
isMainProduct(step, productTypeId) == step.productTypeId = productTypeId

RECURSIVE componentMapOf(_, _, _, _, _, _)
\* the loop that fills componentMap, from step i on
componentMapOf(steps, jobCosts, priceMap, productTypeId, i, acc) ==
    IF i > Len(steps) THEN acc
    ELSE LET step == steps[i]
             cost == stepBuildCost(step, jobCosts[i], priceMap)
             entry == IF MapHas(acc, step.productTypeId)
                      THEN LET existing == MapGet(acc, step.productTypeId)
                           IN  [ quantity |-> existing.quantity + step.producedQuantity,
                                 buildCost |-> existing.buildCost + cost ]
                      ELSE [quantity |-> step.producedQuantity, buildCost |-> cost]
         IN  IF isMainProduct(step, productTypeId)
             THEN componentMapOf(steps, jobCosts, priceMap, productTypeId, i + 1, acc)
             ELSE componentMapOf(steps, jobCosts, priceMap, productTypeId, i + 1,
                                 MapSet(acc, step.productTypeId, entry))

\* totalSellPrice > 0 && totalSellPrice < data.buildCost
shouldBuy(totalSellPrice, buildCost) ==
    totalSellPrice > 0 /\ totalSellPrice * RouteCostDenom < buildCost

\* Math.abs(shouldBuy ? buildCost - totalSellPrice : totalSellPrice - buildCost)
savings(totalSellPrice, buildCost) ==
    LET diff == IF shouldBuy(totalSellPrice, buildCost)
                THEN buildCost - totalSellPrice * RouteCostDenom
                ELSE totalSellPrice * RouteCostDenom - buildCost
    IN  IF diff < 0 THEN -diff ELSE diff

\* one ComponentItem
componentItem(typeId, data, priceMap) ==
    LET prices == pricesOf(priceMap, typeId)
        totalSellPrice == prices.sell * data.quantity
    IN  [ typeId |-> typeId, quantity |-> data.quantity,
          volume |-> unitVolume(typeId) * data.quantity,
          buyPrice |-> prices.buy, sellPrice |-> prices.sell,
          totalBuyPrice |-> prices.buy * data.quantity,
          totalSellPrice |-> totalSellPrice,
          buildCost |-> data.buildCost,
          shouldBuy |-> shouldBuy(totalSellPrice, data.buildCost),
          savings |-> savings(totalSellPrice, data.buildCost) ]

\* one MaterialWithPrice
materialWithPrice(typeId, quantity, volume, priceMap) ==
    LET prices == pricesOf(priceMap, typeId)
    IN  [ typeId |-> typeId, quantity |-> quantity, volume |-> volume,
          buyPrice |-> prices.buy, sellPrice |-> prices.sell,
          totalBuyPrice |-> prices.buy * quantity,
          totalSellPrice |-> prices.sell * quantity ]

\* the engine returned: `await getJobBaseCosts(...)` inside its try
RouteFetchJobBaseCosts(outcome) ==
    /\ pc = "done"
    /\ body # NoBody
    /\ fetched' = [fetched EXCEPT !.jobBaseCosts = outcome]
    /\ pc' = "fetchPrices"
    /\ UNCHANGED <<request, stack, rawMaterials, buildSteps, excessTracker,
                   result, unitResult, unitRequest, thrown, body, response>>
    /\ UNCHANGED formulaVars

\* `await createAppraisal(itemList)` inside its try
RouteFetchPrices(outcome) ==
    /\ pc = "fetchPrices"
    /\ fetched' = [fetched EXCEPT !.prices = outcome]
    /\ pc' = "respond"
    /\ UNCHANGED <<request, stack, rawMaterials, buildSteps, excessTracker,
                   result, unitResult, unitRequest, thrown, body, response>>
    /\ UNCHANGED formulaVars

\* a mutant: a failed fetch leaves base costs of an earlier answer
jobBaseCostsOfStale(outcome) ==
    IF outcome.kind = "value" THEN outcome.value ELSE (107 :> 20) @@ (111 :> 10) @@ (104 :> 20)

\* `let jobBaseCosts = new Map()`, replaced when the fetch answered
jobBaseCostsOf(outcome) ==
    IF outcome.kind = "value" THEN outcome.value ELSE [b \in {} |-> 0]

\* `let priceMap = new Map()`, filled when the appraisal answered
priceMapOf(outcome) ==
    IF outcome.kind = "value" THEN outcome.value ELSE [t \in {} |-> [buy |-> 0, sell |-> 0]]

\* the response: job costs from the base costs, prices from the appraisal, the
\* totals and the build-or-buy comparison of every component.  Names, group
\* names, the formatted durations and costPerUnit are left out of the response.
RouteRespond ==
    /\ pc = "respond"
    /\ LET jobBaseCosts == jobBaseCostsOf(fetched.jobBaseCosts)
           priceMap == priceMapOf(fetched.prices)
           blueprint == blueprints[body.blueprintTypeId]
           settings == request.settings
           steps == result.buildSteps
           jobCosts == [i \in 1..Len(steps) |->
                           routeJobCost(baseCostOf(jobBaseCosts, steps[i].blueprintTypeId),
                                        settings, steps[i].runs)]
           totalJobCost == SumSeq(jobCosts, 1)
           materials == [i \in 1..Len(result.rawMaterials) |->
                            materialWithPrice(result.rawMaterials[i].typeId,
                                result.rawMaterials[i].adjustedQuantity,
                                result.rawMaterials[i].volume, priceMap)]
           excessMaterials == [i \in 1..Len(result.excessMaterials) |->
                                  materialWithPrice(result.excessMaterials[i].typeId,
                                      result.excessMaterials[i].quantity,
                                      result.excessMaterials[i].volume, priceMap)]
           materialsCostBuy == SumSeq([i \in 1..Len(materials) |-> materials[i].totalBuyPrice], 1)
           materialsCostSell == SumSeq([i \in 1..Len(materials) |-> materials[i].totalSellPrice], 1)
           excessValue == SumSeq([i \in 1..Len(excessMaterials) |->
                                     excessMaterials[i].totalBuyPrice], 1)
           totalCost == (materialsCostBuy - excessValue) * RouteCostDenom + totalJobCost
           productPrices == pricesOf(priceMap, blueprint.productTypeId)
           componentMap == componentMapOf(steps, jobCosts, priceMap,
                                          blueprint.productTypeId, 1, <<>>)
       IN  response' =
               [ status |-> 200,
                 blueprint |-> [ blueprintTypeId |-> blueprint.blueprintTypeId,
                                 productTypeId |-> blueprint.productTypeId ],
                 materials |-> materials,
                 components |-> [i \in 1..Len(componentMap) |->
                                    componentItem(componentMap[i].key,
                                                  componentMap[i].value, priceMap)],
                 outputs |-> << [ typeId |-> blueprint.productTypeId,
                                  quantity |-> settings.quantity,
                                  totalSellPrice |-> productPrices.sell * settings.quantity ] >>,
                 excessMaterials |-> excessMaterials,
                 costs |-> [ materialsCostBuy |-> materialsCostBuy,
                             materialsCostSell |-> materialsCostSell,
                             jobCosts |-> totalJobCost,
                             excessValue |-> excessValue,
                             totalCost |-> totalCost,
                             estimatedProfit |->
                                 productPrices.sell * settings.quantity * RouteCostDenom
                                     - totalCost ],
                 buildSteps |-> [i \in 1..Len(steps) |->
                                    [ productTypeId |-> steps[i].productTypeId,
                                      runs |-> steps[i].runs,
                                      quantity |-> steps[i].producedQuantity,
                                      excess |-> steps[i].excessQuantity,
                                      jobCost |-> jobCosts[i] ]],
                 systemCostIndex |-> settings.systemCostIndex ]
    /\ pc' = "responded"
    /\ UNCHANGED <<request, stack, rawMaterials, buildSteps, excessTracker,
                   result, unitResult, unitRequest, thrown, body, fetched>>
    /\ UNCHANGED formulaVars

\* ------------------------------------------------------------------------
\* The requests
\* ------------------------------------------------------------------------
AdjustedPriceMaps ==
    { [t \in {} |-> 0],
      (TypeX :> 2) @@ (TypeZ :> 1) @@ (TypeY :> 7) @@ (TypeB :> 3) @@ (TypeR :> 5) }

\* the settings of the direct calls; the two time efficiencies, which decide
\* no branch, are drawn apart so that the level a time was computed for shows
SettingsSet ==
    { s \in [ blueprintMe : {0, MaxBlueprintMe},
              blueprintTe : {0, MaxBlueprintTe},
              runs : 1..MaxRuns,
              quantity : {1},
              systemCostIndex : {5},
              facilityTax : {10},
              structureBonus : {b \in StructureBonuses : b.teBonus <= 1500},
              rigBonus : {b \in RigBonuses : b.meBonus <= 200},
              securityMultiplier : {10, 21},
              componentMe : {0, MaxBlueprintMe},
              componentTe : {0, MaxBlueprintTe} ] :
        s.blueprintTe # s.componentTe }

Requests ==
    [ blueprintTypeId : DOMAIN blueprints \cup {MissingBlueprintId},
      settings : SettingsSet,
      adjustedPrices : AdjustedPriceMaps ]

\* what getSystemCostIndex answers
SystemCostIndexes == {5, 8}

\* what getJobBaseCosts answers
JobBaseCostMaps ==
    { [b \in {} |-> 0],
      (103 :> 10) @@ (104 :> 20) @@ (105 :> 15) @@ (106 :> 5) @@ (107 :> 20) @@ (111 :> 10) }

P(buy, sell) == [buy |-> buy, sell |-> sell]

\* what the appraisal answers
PriceMaps ==
    { [t \in {} |-> P(0, 0)],
      (TypeX :> P(1, 2)) @@ (TypeZ :> P(3, 5)) @@ (TypeY :> P(2, 3)) @@ (TypeA :> P(20, 30))
          @@ (TypeB :> P(1, 1)) @@ (TypeT :> P(40, 50)) @@ (TypeU :> P(60, 90)),
      (TypeX :> P(2, 3)) @@ (TypeZ :> P(2, 3)) @@ (TypeY :> P(1, 2)) @@ (TypeA :> P(2, 3))
          @@ (TypeR :> P(3, 4)) @@ (TypeV :> P(30, 40)) }

\* the outcome of a network call: it fails (the promise rejects) or it answers
FetchOutcomes(answers) == {Threw("FetchError")} \cup {Returned(a) : a \in answers}

\* the request bodies.  securityType is drawn from the names with an entry:
\* for any other name getSecurityMultiplier answers undefined and the numbers
\* of the calculation are NaN, which the integers of this model do not hold
\* (the resolvers are called with every name under SpecOptions).
Bodies ==
    [ blueprintTypeId : {0, MissingBlueprintId, 104, 107, 111, 112},
      runs : {Absent, 2},
      quantity : {Absent, 2},
      blueprintMe : {Absent},
      blueprintTe : {Absent},
      facilityTax : {Absent, 10},
      structureType : {"", "npc_station", "keepstar"},
      rigType : {"", "t2", "t3"},
      securityType : {"", "nullsec"} ]

EngineIdle ==
    /\ request = [blueprintTypeId |-> 0]
    /\ pc = "idle"
    /\ stack = <<>>
    /\ rawMaterials = <<>>
    /\ buildSteps = <<>>
    /\ excessTracker = <<>>
    /\ result = NoResult
    /\ unitResult = NoResult
    /\ unitRequest = [blueprintTypeId |-> 0]
    /\ thrown = ""
    /\ body = NoBody
    /\ response = NoResponse
    /\ fetched = NoFetches

FormulasIdle ==
    /\ fArgs = [runs |-> 0]
    /\ fRet = NoRet
    /\ fpc = "idle"

Init ==
    /\ \/ request \in Requests /\ pc = "call" /\ body = NoBody
       \/ request = [blueprintTypeId |-> 0] /\ pc = "post" /\ body \in Bodies
    /\ stack = <<>>
    /\ rawMaterials = <<>>
    /\ buildSteps = <<>>
    /\ excessTracker = <<>>
    /\ result = NoResult
    /\ unitResult = NoResult
    /\ unitRequest = [blueprintTypeId |-> 0]
    /\ thrown = ""
    /\ response = NoResponse
    /\ fetched = NoFetches
    /\ FormulasIdle

Next ==
    \/ BlueprintNotFound
    \/ StartBuild
    \/ ProcessMaterial
    \/ StackOverflow
    \/ FinishStep
    \/ ScaleBatches
    \/ ReturnResult
    \/ \E quantity \in 1..MaxBatches : Recalculate(quantity)
    \/ \E adjustedPrices \in AdjustedPriceMaps : Reprice(adjustedPrices)
    \/ RouteMissingId
    \/ RouteNotFound
    \/ RouteBuildSettings
    \/ \E outcome \in FetchOutcomes(SystemCostIndexes) : RouteFetchSystemCostIndex(outcome)
    \/ RouteCatch
    \/ \E outcome \in FetchOutcomes(JobBaseCostMaps) : RouteFetchJobBaseCosts(outcome)
    \/ \E outcome \in FetchOutcomes(PriceMaps) : RouteFetchPrices(outcome)
    \/ RouteRespond

Spec == Init /\ [][Next]_vars

\* the calls whose time bonuses, prices and tax, which decide no branch, are
\* fixed
InitFair ==
    /\ Init
    /\ body = NoBody =>
           /\ request.settings.blueprintTe = 0
           /\ request.adjustedPrices = [t \in {} |-> 0]
    /\ body # NoBody =>
           /\ body.facilityTax = Absent
           /\ body.securityType = ""

\* calculateRecursiveBuild is synchronous and the handler is awaited to its
\* end: a step that can be taken is taken
FairSpec == InitFair /\ [][Next]_vars /\ WF_vars(Next)

\* ------------------------------------------------------------------------
\* Specification of the quantity formula: a caller draws the arguments, calls
\* calculateMaterialQuantity for the batch and then for a single run.
\* ------------------------------------------------------------------------
QtyArgs ==
    [ baseQuantity : (1..MaxBaseQty) \cup {100},
      runs : 1..MaxQtyRuns,
      blueprintMe : 0..MaxBlueprintMe,
      structureMeBonus : {b.meBonus : b \in StructureBonuses},
      rigMeBonus : {b.meBonus : b \in RigBonuses},
      securityMultiplier : SecurityMultipliers ]

InitQty ==
    /\ fArgs \in QtyArgs
    /\ fRet = NoRet
    /\ fpc = "start"
    /\ EngineIdle

CalcBatch ==
    /\ fpc = "start"
    /\ fRet' = [fRet EXCEPT !.batch =
                    calculateMaterialQuantity(fArgs.baseQuantity, fArgs.runs,
                        fArgs.blueprintMe, fArgs.structureMeBonus,
                        fArgs.rigMeBonus, fArgs.securityMultiplier)]
    /\ fpc' = "batch"
    /\ UNCHANGED fArgs
    /\ UNCHANGED engineVars

CalcSingle ==
    /\ fpc = "batch"
    /\ fRet' = [fRet EXCEPT !.single =
                    calculateMaterialQuantity(fArgs.baseQuantity, 1,
                        fArgs.blueprintMe, fArgs.structureMeBonus,
                        fArgs.rigMeBonus, fArgs.securityMultiplier)]
    /\ fpc' = "done"
    /\ UNCHANGED fArgs
    /\ UNCHANGED engineVars

NextQty == CalcBatch \/ CalcSingle

SpecQty == InitQty /\ [][NextQty]_vars

\* ------------------------------------------------------------------------
\* Specification of the time formula
\* ------------------------------------------------------------------------
TimeArgs ==
    [ baseTime : 1..MaxBaseTime,
      runs : 1..MaxTimeRuns,
      blueprintTe : 0..MaxBlueprintTe,
      structureTeBonus : {b.teBonus : b \in StructureBonuses},
      rigTeBonus : {b.teBonus : b \in RigBonuses},
      securityMultiplier : SecurityMultipliers ]

InitTime ==
    /\ fArgs \in TimeArgs
    /\ fRet = NoRet
    /\ fpc = "start"
    /\ EngineIdle

CalcTime ==
    /\ fpc = "start"
    /\ fRet' = [fRet EXCEPT !.time =
                    calculateJobTime(fArgs.baseTime, fArgs.runs,
                        fArgs.blueprintTe, fArgs.structureTeBonus,
                        fArgs.rigTeBonus, fArgs.securityMultiplier)]
    /\ fpc' = "done"
    /\ UNCHANGED fArgs
    /\ UNCHANGED engineVars

NextTime == CalcTime

SpecTime == InitTime /\ [][NextTime]_vars

\* ------------------------------------------------------------------------
\* Specification of the bonus resolvers: a caller draws a structure, a rig and
\* a security name, with or without an entry, and calls the three resolvers.
\* ------------------------------------------------------------------------
OptionArgs ==
    [ structureType : DOMAIN industryStructures \cup {"keepstar", "fortizar"},
      rigType : DOMAIN rigs \cup {"t3", "faction"},
      securityType : DOMAIN securityMultipliers \cup {"pochven", "abyssal"} ]

InitOptions ==
    /\ fArgs \in OptionArgs
    /\ fRet = NoRet
    /\ fpc = "start"
    /\ EngineIdle

ResolveStructure ==
    /\ fpc = "start"
    /\ fRet' = [structure |-> getStructureBonus(fArgs.structureType)]
    /\ fpc' = "structure"
    /\ UNCHANGED fArgs
    /\ UNCHANGED engineVars

ResolveRig ==
    /\ fpc = "structure"
    /\ fRet' = [structure |-> fRet.structure, rig |-> getRigBonus(fArgs.rigType)]
    /\ fpc' = "rig"
    /\ UNCHANGED fArgs
    /\ UNCHANGED engineVars

ResolveSecurity ==
    /\ fpc = "rig"
    /\ fRet' = [ structure |-> fRet.structure, rig |-> fRet.rig,
                 security |-> getSecurityMultiplier(fArgs.securityType) ]
    /\ fpc' = "done"
    /\ UNCHANGED fArgs
    /\ UNCHANGED engineVars

NextOptions == ResolveStructure \/ ResolveRig \/ ResolveSecurity

SpecOptions == InitOptions /\ [][NextOptions]_vars

\* ------------------------------------------------------------------------
\* Claims about the formulas
\* ------------------------------------------------------------------------
\* the spec's instance of the efficiency floor
FloorExampleArgs ==
    [ baseQuantity |-> 1, runs |-> 10, blueprintMe |-> 10,
      structureMeBonus |-> 100, rigMeBonus |-> 200, securityMultiplier |-> 19 ]

\* C1: every call of calculateMaterialQuantity returns at least runs, and the
\* spec's instance (1, 10, ME 10, 0.01, 0.02, 1.9) returns exactly 10.
C1_EfficiencyFloor ==
    fpc # "start" =>
        /\ fRet.batch >= fArgs.runs
        /\ fArgs = FloorExampleArgs => fRet.batch = 10

\* the floor decides: the efficiency-adjusted total is below runs
C1_Witness ==
    /\ fpc = "done"
    /\ fArgs = FloorExampleArgs
    /\ fRet.batch = 10
    /\ rawQuantity(1, 10, totalMeReduction(10, 100, 200, 19)) < 10 * EffDenom

\* The reference of C2, stated without the code's operators.  The stacked
\* efficiency e = ME/100 + structure + rig * security and the total
\* x = baseQuantity * runs * (1 - e) are rationals over 100000.
\* ceil(round2(x)) <= c  iff  round2(x) <= c  iff  x < c + 0.005, so
\* ceil(round2(x)) is the least integer c with 200 * x < 200 * c + 1.
RefReduction(a) ==
    a.blueprintMe * 1000 + a.structureMeBonus * 10
        + a.rigMeBonus * a.securityMultiplier
RefTotal(a) == a.baseQuantity * a.runs * (100000 - RefReduction(a))
RefCeilRound2AtMost(a, c) == 2 * RefTotal(a) < (200 * c + 1) * 1000

\* C2: calculateMaterialQuantity = max(runs, ceil(round2(baseQuantity * runs *
\* (1 - (ME/100 + structure + rig * security))))), round2 half-up at two
\* decimals, the efficiency applied once to the total baseQuantity * runs.
C2_MatchesReference ==
    fpc # "start" =>
        /\ fRet.batch >= fArgs.runs
        /\ RefCeilRound2AtMost(fArgs, fRet.batch)
        /\ fRet.batch > fArgs.runs => ~RefCeilRound2AtMost(fArgs, fRet.batch - 1)

\* a batch where the total differs from the single run multiplied
C2_Witness ==
    /\ fpc = "done"
    /\ fRet.batch > fArgs.runs
    /\ fRet.batch < fArgs.runs * fRet.single

\* C3 as claimed: for every baseQuantity and runs the batch needs at most runs
\* times what a single run needs.
C3_SuperLinearAll ==
    fpc = "done" => fRet.batch <= fArgs.runs * fRet.single

\* the two-decimal rounding lowers the single-run quantity
SingleRoundedDown ==
    LET raw == rawQuantity(fArgs.baseQuantity, 1,
                   totalMeReduction(fArgs.blueprintMe, fArgs.structureMeBonus,
                                    fArgs.rigMeBonus, fArgs.securityMultiplier))
    IN  roundToCents(raw) * CentUnit < raw

\* C3 (amended): the batch needs at most runs times what a single run needs
\* whenever the single-run quantity baseQuantity * (1 - efficiency) is not
\* rounded down by the two-decimal rounding; baseQuantity = 100 is such a case.
C3_SuperLinear ==
    /\ (fpc = "done" /\ ~SingleRoundedDown) =>
            fRet.batch <= fArgs.runs * fRet.single
    /\ (fpc = "done" /\ fArgs.baseQuantity = 100) => ~SingleRoundedDown

\* the spec's instance, with a batch strictly cheaper than 20 single runs
C3_Witness ==
    /\ fpc = "done"
    /\ fArgs.baseQuantity = 100
    /\ fArgs.runs = 20
    /\ fRet.batch < 20 * fRet.single

\* the stacked time bonus of the call, over 100000
RefTeReduction(a) ==
    a.blueprintTe * 1000 + a.structureTeBonus * 10
        + a.rigTeBonus * a.securityMultiplier

Indices(seq) == 1..Len(seq)
TopActivityId == blueprints[request.blueprintTypeId].activityId
TypeIdsOf(reqs) == {reqs[i].typeId : i \in Indices(reqs)}

\* the adjusted quantity of typeId over the material lines of one step
StepDemand(step, typeId) ==
    SumSeq([j \in Indices(step.materials) |->
               IF step.materials[j].typeId = typeId
               THEN step.materials[j].adjustedQuantity ELSE 0], 1)

\* the adjusted quantity of typeId over every material line of every step
TotalDemand(steps, typeId) ==
    SumSeq([i \in Indices(steps) |-> StepDemand(steps[i], typeId)], 1)

\* the types that occur on a material line that was not recursed into
RawTypesOf(steps) ==
    { t \in TypeIds :
        /\ \E i \in Indices(steps) : t \in TypeIdsOf(steps[i].materials)
        /\ ~shouldRecurse(TopActivityId, t) }

\* C5: the returned rawMaterials hold exactly one entry per type treated as raw
\* anywhere in the tree; its adjustedQuantity is the sum of the adjusted
\* quantities of all its material lines, its volume unitVolume * that sum.
C5_RawAggregation ==
    pc = "done" =>
        LET raw == result.rawMaterials
        IN  /\ \A i, j \in Indices(raw) : raw[i].typeId = raw[j].typeId => i = j
            /\ TypeIdsOf(raw) = RawTypesOf(result.buildSteps)
            /\ \A i \in Indices(raw) :
                /\ raw[i].adjustedQuantity =
                       TotalDemand(result.buildSteps, raw[i].typeId)
                /\ raw[i].volume = unitVolume(raw[i].typeId) * raw[i].adjustedQuantity

\* a raw type asked for by three different steps, and one entry for it
C5_Witness ==
    /\ pc = "done"
    /\ request.blueprintTypeId = 107
    /\ request.settings.quantity > 1
    /\ Cardinality({i \in Indices(result.buildSteps) :
                       StepDemand(result.buildSteps[i], TypeX) > 0}) = 3
    /\ \E i \in Indices(result.rawMaterials) :
        /\ result.rawMaterials[i].typeId = TypeX
        /\ result.rawMaterials[i].adjustedQuantity =
               TotalDemand(result.buildSteps, TypeX)
        /\ result.rawMaterials[i].volume > 0

\* the material line the innermost activation is about to process
AtMaterial == pc = "expand" /\ TopFrame.next <= Len(blueprints[TopFrame.bp].materials)
NextMaterial == blueprints[TopFrame.bp].materials[TopFrame.next]
NextDemand ==
    calculateMaterialQuantity(NextMaterial.quantity, TopFrame.runs, TopFrame.me,
        request.settings.structureBonus.meBonus, request.settings.rigBonus.meBonus,
        request.settings.securityMultiplier)
\* a recursion-eligible line meets a surplus in the ledger
AtBankedComponent ==
    /\ AtMaterial
    /\ shouldRecurse(TopActivityId, NextMaterial.typeId)
    /\ excessOf(excessTracker, NextMaterial.typeId) > 0

\* C6: a recursion-eligible demand for T that meets a surplus e > 0 takes
\* min(e, demand) from the ledger first.  If e covers the demand, no activation
\* is started, no build step is added, rawMaterials are unchanged and the
\* ledger drops by the demand; otherwise the remainder demand - e is produced
\* in ceil((demand - e) / producedQuantity) runs.
C6_ExcessReuse ==
    [][ AtBankedComponent =>
          LET t == NextMaterial.typeId
              e == excessOf(excessTracker, t)
              p == getBlueprintByProduct(t).producedQuantity
          IN  /\ buildSteps' = buildSteps
              /\ rawMaterials' = rawMaterials
              /\ IF e >= NextDemand
                 THEN /\ Len(stack') = Len(stack)
                      /\ excessOf(excessTracker', t) = e - NextDemand
                 ELSE /\ Len(stack') = Len(stack) + 1
                      /\ stack'[Len(stack')].bp = blueprintsByProduct[t]
                      /\ stack'[Len(stack')].runs * p >= NextDemand - e
                      /\ (stack'[Len(stack')].runs - 1) * p < NextDemand - e
                      /\ excessOf(excessTracker', t) =
                             stack'[Len(stack')].runs * p - (NextDemand - e)
      ]_vars

\* the spec's instance: 7 of B were needed from a run of 10, 3 are banked, a
\* demand of 2 has just been served from the bank: 1 is left, B was built once
C6_Witness ==
    /\ pc = "expand"
    /\ request.blueprintTypeId = 107
    /\ Len(stack) = 1
    /\ TopFrame.next = 3
    /\ TopFrame.stepMaterials[2].typeId = TypeB
    /\ TopFrame.stepMaterials[2].adjustedQuantity = 2
    /\ excessOf(excessTracker, TypeB) = 1
    /\ Len(buildSteps) = 2
    /\ buildSteps[2].productTypeId = TypeB
    /\ buildSteps[2].runs = 1
    /\ buildSteps[2].excessQuantity = 3

\* the caller holds the result for one batch and the result for N batches, for
\* the same prices
BothResults ==
    /\ pc = "done"
    /\ unitResult # NoResult
    /\ request.adjustedPrices = unitRequest.adjustedPrices

\* C7: each rawMaterials entry returned for numberOfBatches = N is N times the
\* entry returned for numberOfBatches = 1, for the same types.
C7_BatchLinearity ==
    BothResults =>
        LET n == request.settings.quantity
            raw == result.rawMaterials
            unit == unitResult.rawMaterials
        IN  /\ Len(raw) = Len(unit)
            /\ \A i \in Indices(raw) :
                /\ raw[i].typeId = unit[i].typeId
                /\ raw[i].baseQuantity = n * unit[i].baseQuantity
                /\ raw[i].adjustedQuantity = n * unit[i].adjustedQuantity
                /\ raw[i].volume = n * unit[i].volume

C7_Witness ==
    /\ BothResults
    /\ request.settings.quantity = MaxBatches
    /\ Len(result.rawMaterials) >= 2
    /\ \A i \in Indices(result.rawMaterials) :
           result.rawMaterials[i].adjustedQuantity > 0
    /\ \E i \in Indices(result.rawMaterials) : result.rawMaterials[i].volume > 0

\* C8: for numberOfBatches = N every build step's runs, producedQuantity,
\* excessQuantity, time, jobCost and each of its materials' quantities, and
\* every surplus, are N times those of the result for one batch.
C8_StepScaling ==
    BothResults =>
        LET n == request.settings.quantity
            steps == result.buildSteps
            unit == unitResult.buildSteps
            ex == result.excessMaterials
            unitEx == unitResult.excessMaterials
        IN  /\ Len(steps) = Len(unit)
            /\ \A i \in Indices(steps) :
                /\ steps[i].blueprintTypeId = unit[i].blueprintTypeId
                /\ steps[i].runs = n * unit[i].runs
                /\ steps[i].producedQuantity = n * unit[i].producedQuantity
                /\ steps[i].excessQuantity = n * unit[i].excessQuantity
                /\ steps[i].time = n * unit[i].time
                /\ steps[i].jobCost = n * unit[i].jobCost
                /\ Len(steps[i].materials) = Len(unit[i].materials)
                /\ \A j \in Indices(steps[i].materials) :
                    LET m == steps[i].materials[j]
                        u == unit[i].materials[j]
                    IN  /\ m.typeId = u.typeId
                        /\ m.baseQuantity = n * u.baseQuantity
                        /\ m.adjustedQuantity = n * u.adjustedQuantity
                        /\ m.volume = n * u.volume
            /\ Len(ex) = Len(unitEx)
            /\ \A i \in Indices(ex) :
                /\ ex[i].typeId = unitEx[i].typeId
                /\ ex[i].quantity = n * unitEx[i].quantity

\* several batches of a build with two steps of the same blueprint, a surplus
\* and a job cost
C8_Witness ==
    /\ BothResults
    /\ request.settings.quantity > 1
    /\ \E i, j \in Indices(result.buildSteps) :
        /\ i # j
        /\ result.buildSteps[i].blueprintTypeId = result.buildSteps[j].blueprintTypeId
        /\ result.buildSteps[i].excessQuantity > 0
        /\ result.buildSteps[i].jobCost > 0
    /\ Len(result.excessMaterials) > 0

\* C9: every build step has the activity of the top-level target; a material
\* whose producing blueprint has the other activity is never expanded and is
\* in rawMaterials although it has a producing blueprint.
C9_ActivityBoundary ==
    /\ \A k \in Indices(stack) : blueprints[stack[k].bp].activityId = TopActivityId
    /\ \A i \in Indices(buildSteps) :
           blueprints[buildSteps[i].blueprintTypeId].activityId = TopActivityId
    /\ pc = "done" =>
        \A i \in Indices(result.buildSteps) :
            \A j \in Indices(result.buildSteps[i].materials) :
                LET t == result.buildSteps[i].materials[j].typeId
                IN  (/\ HasBlueprintByProduct(t)
                     /\ getBlueprintByProduct(t).activityId # TopActivityId)
                    => /\ t \in TypeIdsOf(result.rawMaterials)
                       /\ \A k \in Indices(result.buildSteps) :
                              result.buildSteps[k].productTypeId # t

\* a manufacturing target that consumes a reaction product and builds Y
C9_Witness ==
    /\ pc = "done"
    /\ TopActivityId = ACTIVITY_MANUFACTURING
    /\ getBlueprintByProduct(TypeR).activityId = ACTIVITY_REACTION
    /\ TypeR \in TypeIdsOf(result.buildSteps[1].materials)
    /\ TypeR \in TypeIdsOf(result.rawMaterials)
    /\ \E k \in Indices(result.buildSteps) : result.buildSteps[k].productTypeId = TypeY
    /\ \A k \in Indices(result.buildSteps) : result.buildSteps[k].productTypeId # TypeR

\* the spec's end-to-end request: blueprint 104 needs 10 X and 5 Y per run, Y is
\* built from 3 Z per run, 2 Y per run; runs = 4, one batch, no ME bonus
EndToEndRequest ==
    /\ request.blueprintTypeId = 104
    /\ request.settings.runs = 4
    /\ request.settings.quantity = 1
    /\ request.settings.blueprintMe = 0
    /\ request.settings.componentMe = 0
    /\ request.settings.structureBonus.meBonus = 0
    /\ request.settings.rigBonus.meBonus = 0

\* C10: the end-to-end request returns rawMaterials {X: 40, Z: 30}, a build
\* step for Y with runs 10, producedQuantity 20, excessQuantity 0, and no
\* excess materials.
C10_EndToEnd ==
    (pc = "done" /\ EndToEndRequest) =>
        /\ { <<result.rawMaterials[i].typeId, result.rawMaterials[i].adjustedQuantity>> :
                i \in Indices(result.rawMaterials) }
             = { <<TypeX, 40>>, <<TypeZ, 30>> }
        /\ Len(result.rawMaterials) = 2
        /\ Len(result.buildSteps) = 2
        /\ result.buildSteps[1].productTypeId = TypeT
        /\ result.buildSteps[2].productTypeId = TypeY
        /\ result.buildSteps[2].runs = 10
        /\ result.buildSteps[2].producedQuantity = 20
        /\ result.buildSteps[2].excessQuantity = 0
        /\ result.excessMaterials = <<>>

C10_Witness ==
    /\ pc = "done"
    /\ EndToEndRequest
    /\ blueprints[104].materials = <<Mat(TypeX, 10), Mat(TypeY, 5)>>
    /\ blueprints[103].materials = <<Mat(TypeZ, 3)>>
    /\ blueprints[103].producedQuantity = 2
    /\ result.buildSteps[2].runs = 10

\* ------------------------------------------------------------------------
\* Claims about errors
\* ------------------------------------------------------------------------
\* nothing of a calculation exists
NothingBuilt ==
    /\ stack = <<>>
    /\ rawMaterials = <<>>
    /\ buildSteps = <<>>
    /\ excessTracker = <<>>
    /\ result = NoResult

\* C11: a direct call with a blueprint id that has no entry only ever throws
\* BlueprintNotFound, with no accumulator created and no result; the route
\* answers such a body with 400 or 404 and never calls the engine.
C11_BlueprintNotFound ==
    /\ (body = NoBody /\ request.blueprintTypeId \notin DOMAIN blueprints) =>
           /\ pc \in {"call", "error"}
           /\ pc = "error" => thrown = "BlueprintNotFound"
           /\ NothingBuilt
    /\ (body # NoBody /\ body.blueprintTypeId \notin DOMAIN blueprints) =>
           /\ pc \in {"post", "responded"}
           /\ pc = "responded" => response.status \in {400, 404}
           /\ request = [blueprintTypeId |-> 0]
           /\ thrown = ""
           /\ NothingBuilt

\* the direct call has thrown
C11_Witness ==
    /\ body = NoBody
    /\ request.blueprintTypeId = MissingBlueprintId
    /\ pc = "error"
    /\ thrown = "BlueprintNotFound"

\* ------------------------------------------------------------------------
\* Claims about the order of the build steps
\* ------------------------------------------------------------------------
\* the steps of steps that make typeId
StepsMaking(steps, typeId) == {k \in Indices(steps) : steps[k].productTypeId = typeId}

CallStarted == pc = "expand" /\ Len(stack) = 1 /\ TopFrame.next = 1

\* C13: a call made after another call, which left its steps, raw materials
\* and surplus behind, starts from empty accumulators, and for the same
\* blueprint, settings and prices it returns the result the first call
\* returned.
C13_Isolation ==
    /\ CallStarted =>
           rawMaterials = <<>> /\ buildSteps = <<>> /\ excessTracker = <<>>
    /\ (pc = "done" /\ unitResult # NoResult /\ request = unitRequest) =>
           result = unitResult

\* the first call banked a surplus, the second returned the same result
C13_Witness ==
    /\ pc = "done"
    /\ request = unitRequest
    /\ unitResult.excessMaterials # <<>>
    /\ Len(unitResult.buildSteps) > 2
    /\ result = unitResult

\* ------------------------------------------------------------------------
\* Claims about termination
\* ------------------------------------------------------------------------
\* the blueprints that make the materials of blueprint b
ComponentBlueprints(b) ==
    { blueprintsByProduct[blueprints[b].materials[j].typeId] :
        j \in { i \in Indices(blueprints[b].materials) :
                  HasBlueprintByProduct(blueprints[b].materials[i].typeId) } }

RECURSIVE LongestPath(_, _)
\* the blueprints on the longest path of the graph that starts at b, cut off
\* after limit blueprints
LongestPath(b, limit) ==
    IF limit = 0 THEN 0
    ELSE LET below == {LongestPath(c, limit - 1) : c \in ComponentBlueprints(b)}
         IN  1 + (IF below = {} THEN 0 ELSE CHOOSE d \in below : \A e \in below : e <= d)

\* no path from b runs into a cycle: every path ends within the blueprints
\* there are
Acyclic(b) == LongestPath(b, Cardinality(DOMAIN blueprints) + 1) <= Cardinality(DOMAIN blueprints)
DagDepth(b) == LongestPath(b, Cardinality(DOMAIN blueprints) + 1)

AcyclicRequest ==
    /\ request.blueprintTypeId \in DOMAIN blueprints
    /\ Acyclic(request.blueprintTypeId)

\* C14: a call for a blueprint whose graph is acyclic returns a result, and the
\* activations on the stack never exceed the depth of the graph below the
\* target.
C14_Termination ==
    /\ [](AcyclicRequest => Len(stack) <= DagDepth(request.blueprintTypeId))
    /\ (pc = "call" /\ AcyclicRequest) ~> (pc = "done" /\ result # NoResult)

\* the call for U has returned; the graph below U is three blueprints deep
C14_Witness ==
    /\ pc = "done"
    /\ AcyclicRequest
    /\ request.blueprintTypeId = 107
    /\ DagDepth(107) = 3
    /\ result.buildSteps[Len(result.buildSteps)].productTypeId = TypeB
    /\ ~Acyclic(112)

\* the target's graph runs into a cycle
CyclicRequest ==
    /\ request.blueprintTypeId \in DOMAIN blueprints
    /\ ~Acyclic(request.blueprintTypeId)

\* C15: on a blueprint graph with a cycle the engine fails with a
\* CyclicBlueprintGraph error, raised by a depth bound of its own before the
\* call stack of the runtime is exhausted, and returns no result.
C15_CycleGuard ==
    CyclicRequest =>
        /\ pc # "done"
        /\ result = NoResult
        /\ pc = "error" =>
               /\ thrown = "CyclicBlueprintGraph"
               /\ Len(stack) < MaxStackDepth

\* ------------------------------------------------------------------------
\* Claims about the bonus resolvers
\* ------------------------------------------------------------------------
\* C16: each resolver, given a name without an entry in its table, fails with
\* an UnknownOption error, and given a name with an entry returns the entry;
\* none returns undefined.
C16_UnknownOption ==
    fpc = "done" =>
        /\ fRet.structure =
               IF fArgs.structureType \in DOMAIN industryStructures
               THEN Returned(industryStructures[fArgs.structureType])
               ELSE Threw("UnknownOption")
        /\ fRet.rig =
               IF fArgs.rigType \in DOMAIN rigs
               THEN Returned(rigs[fArgs.rigType])
               ELSE Threw("UnknownOption")
        /\ fRet.security =
               IF fArgs.securityType \in DOMAIN securityMultipliers
               THEN Returned(securityMultipliers[fArgs.securityType])
               ELSE Threw("UnknownOption")

\* ------------------------------------------------------------------------
\* Claims about missing reference data
\* ------------------------------------------------------------------------
\* a result without its job costs
WithoutCosts(res) ==
    [res EXCEPT !.totalJobCost = 0,
                !.buildSteps = [i \in Indices(@) |-> [@[i] EXCEPT !.jobCost = 0]]]

\* the job cost of a returned step, from the materials that have a price only
PricedJobCost(step, prices, settings) ==
    LET n == settings.quantity
        priced == {j \in Indices(step.materials) : step.materials[j].typeId \in DOMAIN prices}
        base == SumSeq([j \in Indices(step.materials) |->
                           IF j \in priced
                           THEN prices[step.materials[j].typeId]
                                    * (step.materials[j].adjustedQuantity \div n)
                           ELSE 0], 1)
    IN  base * settings.systemCostIndex * 2 * (step.runs \div n)
            * (100 - settings.structureBonus.jobCostBonus)
            * (100 + settings.facilityTax) * n

\* the caller holds two results that differ in the price map only
Repriced ==
    /\ pc = "done"
    /\ unitResult # NoResult
    /\ request.adjustedPrices # unitRequest.adjustedPrices

\* C17: a material without an adjusted price adds nothing to the job cost of
\* its step and fails no call: the job cost of every step is that of its
\* priced materials, with an empty price map every job cost and the total are
\* 0, and two calls that differ in the price map only return the same steps,
\* quantities, raw materials and surplus.
C17_MissingPrice ==
    /\ AcyclicRequest => pc # "error"
    /\ pc = "done" =>
           /\ \A i \in Indices(result.buildSteps) :
                  result.buildSteps[i].jobCost =
                      PricedJobCost(result.buildSteps[i], request.adjustedPrices,
                                    request.settings)
           /\ request.adjustedPrices = [t \in {} |-> 0] =>
                  /\ result.totalJobCost = 0
                  /\ \A i \in Indices(result.buildSteps) :
                         result.buildSteps[i].jobCost = 0
    /\ Repriced => WithoutCosts(result) = WithoutCosts(unitResult)

\* V was calculated without prices and again with prices for some of its
\* materials: Q and S have none, the priced ones make a job cost
C17_Witness ==
    /\ Repriced
    /\ request.blueprintTypeId = 111
    /\ unitRequest.adjustedPrices = [t \in {} |-> 0]
    /\ unitResult.totalJobCost = 0
    /\ TypeQ \in TypeIdsOf(result.buildSteps[1].materials)
    /\ TypeQ \notin DOMAIN request.adjustedPrices
    /\ result.buildSteps[1].jobCost > 0
    /\ result.totalJobCost > 0

\* the material lines of the returned steps whose type has no TypeInfo
UnlistedLines ==
    UNION { { <<i, j>> : j \in { k \in Indices(result.buildSteps[i].materials) :
                                   result.buildSteps[i].materials[k].typeId
                                       \notin DOMAIN invTypes } } :
            i \in Indices(result.buildSteps) }

\* an unlisted line carries the placeholder name, no volume and its quantity
Placeholder(line) ==
    /\ line.name = "Unknown (" \o ToString(line.typeId) \o ")"
    /\ line.volume = 0
    /\ line.adjustedQuantity > 0

\* typeId is in the returned rawMaterials with all that the steps ask for
CountedAsRaw(typeId) ==
    \E k \in Indices(result.rawMaterials) :
        /\ result.rawMaterials[k].typeId = typeId
        /\ result.rawMaterials[k].adjustedQuantity = TotalDemand(result.buildSteps, typeId)
        /\ result.rawMaterials[k].volume = 0

\* C18 as claimed: every material without TypeInfo gets the placeholder name
\* and volume 0 and is a raw material, counted in rawMaterials.
C18_UnlistedAlwaysRaw ==
    pc = "done" =>
        \A l \in UnlistedLines :
            LET line == result.buildSteps[l[1]].materials[l[2]]
            IN  Placeholder(line) /\ CountedAsRaw(line.typeId)

\* C18: a material without TypeInfo fails no call and gets the placeholder
\* name and volume 0, its adjusted quantity on the line of its step; when the
\* engine does not recurse into a blueprint for it, it is a raw material
\* counted in rawMaterials, and when it does, it is built like any component.
C18_Unlisted ==
    /\ AcyclicRequest => thrown = ""
    /\ pc = "done" =>
           \A l \in UnlistedLines :
               LET line == result.buildSteps[l[1]].materials[l[2]]
               IN  /\ Placeholder(line)
                   /\ IF shouldRecurse(TopActivityId, line.typeId)
                      THEN /\ line.typeId \notin TypeIdsOf(result.rawMaterials)
                           /\ StepsMaking(result.buildSteps, line.typeId) # {}
                      ELSE CountedAsRaw(line.typeId)

\* V asks for Q, which has neither TypeInfo nor a blueprint, and for N, which
\* has no TypeInfo but a blueprint
C18_Witness ==
    /\ pc = "done"
    /\ request.blueprintTypeId = 111
    /\ request.settings.quantity > 1
    /\ Cardinality(UnlistedLines) = 2
    /\ CountedAsRaw(TypeQ)
    /\ StepsMaking(result.buildSteps, TypeN) # {}

\* ------------------------------------------------------------------------
\* Claims about the raw-material flag
\* ------------------------------------------------------------------------
\* C19: on every material line of a returned step isRawMaterial is true exactly
\* when the engine did not recurse into a producing blueprint for the type, and
\* every entry of rawMaterials has isRawMaterial = true.
C19_RawDecision ==
    pc = "done" =>
        /\ \A i \in Indices(result.buildSteps) :
               \A j \in Indices(result.buildSteps[i].materials) :
                   LET line == result.buildSteps[i].materials[j]
                   IN  line.isRawMaterial = ~shouldRecurse(TopActivityId, line.typeId)
        /\ \A k \in Indices(result.rawMaterials) : result.rawMaterials[k].isRawMaterial

\* ------------------------------------------------------------------------
\* Claims about the build-or-buy comparison of the route
\* ------------------------------------------------------------------------
Answered == pc = "responded" /\ response.status = 200

\* the sell price the response shows for typeId, 0 when it shows none
ShownSellPrice(typeId) ==
    LET shown == { response.materials[i].sellPrice :
                     i \in { k \in Indices(response.materials) :
                               response.materials[k].typeId = typeId } }
                 \cup { response.components[i].sellPrice :
                     i \in { k \in Indices(response.components) :
                               response.components[k].typeId = typeId } }
    IN  IF shown = {} THEN 0 ELSE CHOOSE p \in shown : TRUE

\* materials at sell prices plus job cost of the returned step i
ShownStepCost(i) ==
    SumSeq([j \in Indices(result.buildSteps[i].materials) |->
               ShownSellPrice(result.buildSteps[i].materials[j].typeId)
                   * result.buildSteps[i].materials[j].adjustedQuantity], 1)
            * RouteCostDenom
        + response.buildSteps[i].jobCost

\* the sum of f over the steps that make typeId
OverStepsMaking(typeId, f) ==
    SumSeq([i \in Indices(result.buildSteps) |->
               IF result.buildSteps[i].productTypeId = typeId THEN f[i] ELSE 0], 1)

\* the components are the products of the steps other than the target, once
\* each, with the produced quantity and the build cost summed over the steps
\* of the product
ComponentsListed ==
    LET target == blueprints[body.blueprintTypeId].productTypeId
        comps == response.components
    IN  /\ {comps[c].typeId : c \in Indices(comps)} =
               {result.buildSteps[i].productTypeId : i \in Indices(result.buildSteps)}
                   \ {target}
        /\ \A c, d \in Indices(comps) : comps[c].typeId = comps[d].typeId => c = d
        /\ \A c \in Indices(comps) :
               /\ comps[c].quantity =
                      OverStepsMaking(comps[c].typeId,
                          [i \in Indices(result.buildSteps) |->
                              result.buildSteps[i].producedQuantity])
               /\ comps[c].buildCost =
                      OverStepsMaking(comps[c].typeId,
                          [i \in Indices(result.buildSteps) |-> ShownStepCost(i)])
               /\ comps[c].totalSellPrice = comps[c].sellPrice * comps[c].quantity
               /\ LET market == comps[c].totalSellPrice * RouteCostDenom
                      diff == comps[c].buildCost - market
                  IN  comps[c].savings = IF diff < 0 THEN -diff ELSE diff

\* C20 as claimed: shouldBuy is true exactly when the market cost is less than
\* the build cost.
C20_BuyWheneverCheaper ==
    Answered =>
        /\ ComponentsListed
        /\ \A c \in Indices(response.components) :
               response.components[c].shouldBuy <=>
                   response.components[c].totalSellPrice * RouteCostDenom
                       < response.components[c].buildCost

\* C20: for every component the build cost is the sum, over the steps of the
\* product, of the materials at sell prices plus the job cost; shouldBuy is
\* true exactly when the market cost is positive and less than the build
\* cost; savings is the distance of the two; the target is no component.
C20_BuildOrBuy ==
    Answered =>
        /\ ComponentsListed
        /\ \A c \in Indices(response.components) :
               response.components[c].shouldBuy <=>
                   /\ response.components[c].totalSellPrice > 0
                   /\ response.components[c].totalSellPrice * RouteCostDenom
                          < response.components[c].buildCost

\* U is answered with A, cheaper to build, and B, cheaper to buy
C20_Witness ==
    /\ Answered
    /\ body.blueprintTypeId = 107
    /\ Len(response.components) = 2
    /\ \E c, d \in Indices(response.components) :
           /\ response.components[c].shouldBuy
           /\ response.components[c].savings > 0
           /\ ~response.components[d].shouldBuy
           /\ response.components[d].totalSellPrice > 0
           /\ response.components[d].savings > 0
    /\ \E i \in Indices(response.buildSteps) : response.buildSteps[i].jobCost > 0

\* ------------------------------------------------------------------------
\* Claims about the levels of the tree
\* ------------------------------------------------------------------------
\* the factor the post-pass has applied to the build steps
BatchFactor ==
    IF pc \in {"assemble", "done"} /\ request.settings.quantity > 1
    THEN request.settings.quantity ELSE 1

\* buildSteps holds the steps of the current call
StepsOfCall == pc \in {"expand", "scale", "assemble", "done"}

\* the top-level activation returns last and its step is put first
IsTopLevelStep(i) == pc # "expand" /\ i = 1

\* step i was computed for one batch with the efficiency me / te
ComputedWith(i, me, te) ==
    LET step == buildSteps[i]
        bp == blueprints[step.blueprintTypeId]
        settings == request.settings
        runs == step.runs \div BatchFactor
    IN  /\ step.runs = BatchFactor * runs
        /\ Len(step.materials) = Len(bp.materials)
        /\ \A j \in Indices(step.materials) :
               step.materials[j].adjustedQuantity =
                   BatchFactor * calculateMaterialQuantity(bp.materials[j].quantity,
                                     runs, me, settings.structureBonus.meBonus,
                                     settings.rigBonus.meBonus, settings.securityMultiplier)
        /\ step.time =
               BatchFactor * calculateJobTime(bp.time, runs, te,
                                 settings.structureBonus.teBonus,
                                 settings.rigBonus.teBonus, settings.securityMultiplier)

\* C21: the top-level activation and its step use settings.blueprintMe and
\* settings.blueprintTe; every other activation and every component step, at
\* any depth, uses settings.componentMe and settings.componentTe; the
\* structure, rig and security bonuses are those of the settings at every level.
C21_EfficiencySelection ==
    /\ \A k \in Indices(stack) :
        /\ stack[k].isTopLevel = (k = 1)
        /\ stack[k].me = IF k = 1 THEN request.settings.blueprintMe
                         ELSE request.settings.componentMe
        /\ stack[k].te = IF k = 1 THEN request.settings.blueprintTe
                         ELSE request.settings.componentTe
    /\ StepsOfCall =>
        \A i \in Indices(buildSteps) :
            IF IsTopLevelStep(i)
            THEN ComputedWith(i, request.settings.blueprintMe, request.settings.blueprintTe)
            ELSE ComputedWith(i, request.settings.componentMe, request.settings.componentTe)

\* a finished build of U through A and B, two levels deep, in which the two
\* efficiencies differ and give different quantities and times to the
\* component steps
C21_Witness ==
    /\ pc = "done"
    /\ request.blueprintTypeId = 107
    /\ request.settings.blueprintMe # request.settings.componentMe
    /\ request.settings.blueprintTe # request.settings.componentTe
    /\ Len(buildSteps) >= 3
    /\ \E i \in Indices(buildSteps) :
        /\ ~IsTopLevelStep(i)
        /\ ComputedWith(i, request.settings.componentMe, request.settings.componentTe)
        /\ ~ComputedWith(i, request.settings.blueprintMe, request.settings.componentTe)
        /\ ~ComputedWith(i, request.settings.componentMe, request.settings.blueprintTe)

\* ------------------------------------------------------------------------
\* Claims about the ledger of surplus
\* ------------------------------------------------------------------------
\* the ledger holds one entry per type
OneEntryPerType(tracker) ==
    \A i, j \in Indices(tracker) : tracker[i].key = tracker[j].key => i = j

\* C22: when a recursion-eligible demand for T leaves needed > 0 after the
\* ledger was used, the activation started for T's blueprint has the least
\* runs with runs * producedQuantity >= needed, its step reports these runs
\* and producedQuantity = runs * producedQuantity of the blueprint, and the
\* surplus runs * producedQuantity - needed is added to the entry of T, the
\* only entry of T in the ledger; no other entry changes.
C22_BatchRounding ==
    /\ [][ (RecursiveCallNext /\ Len(stack) < MaxStackDepth) =>
             LET t == NextMaterial.typeId
                 e == excessOf(excessTracker, t)
                 used == IF e > 0 THEN Min(e, NextDemand) ELSE 0
                 needed == NextDemand - used
                 p == getBlueprintByProduct(t).producedQuantity
                 callee == stack'[Len(stack')]
             IN  /\ Len(stack') = Len(stack) + 1
                 /\ callee.bp = blueprintsByProduct[t]
                 /\ callee.runs * p >= needed
                 /\ (callee.runs - 1) * p < needed
                 /\ excessOf(excessTracker', t) = (e - used) + (callee.runs * p - needed)
                 /\ OneEntryPerType(excessTracker')
                 /\ \A u \in TypeIds \ {t} :
                        excessOf(excessTracker', u) = excessOf(excessTracker, u)
         ]_vars
    /\ [][ (pc = "expand" /\ Len(stack') < Len(stack)) =>
             /\ Len(buildSteps') = Len(buildSteps) + 1
             /\ buildSteps'[1].blueprintTypeId = TopFrame.bp
             /\ buildSteps'[1].runs = TopFrame.runs
             /\ buildSteps'[1].producedQuantity =
                    TopFrame.runs * blueprints[TopFrame.bp].producedQuantity
         ]_vars

\* one run of blueprint 104 asks for 5 Y, made 2 per run: the activation for
\* Y has just been started with 3 runs and 1 Y is banked
C22_Witness ==
    /\ pc = "expand"
    /\ request.blueprintTypeId = 104
    /\ Len(stack) = 2
    /\ TopFrame.bp = 103
    /\ TopFrame.next = 1
    /\ TopFrame.runs = 3
    /\ stack[1].stepMaterials[2].adjustedQuantity = 5
    /\ excessOf(excessTracker, TypeY) = 1

\* the product of the activation at position k of the stack
ProductOfFrame(k) == blueprints[stack[k].bp].productTypeId

\* C23: the top-level step has excessQuantity = 0; every other step has
\* excessQuantity equal to the ledger entry of its product when its activation
\* returns.  On an acyclic graph that entry is the step's own over-production:
\* it is set to producedQuantity - needed when the activation is started and
\* does not change while the activation is on the stack.  The post-pass
\* multiplies it by numberOfBatches.
C23_StepExcess ==
    /\ [](StepsOfCall =>
            \A i \in Indices(buildSteps) :
                IsTopLevelStep(i) => buildSteps[i].excessQuantity = 0)
    /\ [][ (pc = "expand" /\ Len(stack') < Len(stack)) =>
             buildSteps'[1].excessQuantity =
                 IF Len(stack) = 1 THEN 0
                 ELSE excessOf(excessTracker, ProductOfFrame(Len(stack)))
         ]_vars
    /\ [][ (AcyclicRequest /\ RecursiveCallNext /\ Len(stack') > Len(stack)) =>
             LET t == NextMaterial.typeId
                 e == excessOf(excessTracker, t)
                 needed == NextDemand - (IF e > 0 THEN Min(e, NextDemand) ELSE 0)
                 callee == stack'[Len(stack')]
             IN  excessOf(excessTracker', t) =
                     callee.runs * blueprints[callee.bp].producedQuantity - needed
         ]_vars
    /\ [][ (AcyclicRequest /\ pc = "expand") =>
             \A k \in 2..Min(Len(stack), Len(stack')) :
                 excessOf(excessTracker', ProductOfFrame(k)) =
                     excessOf(excessTracker, ProductOfFrame(k))
         ]_vars
    /\ [][ (pc = "scale" /\ request.settings.quantity > 1) =>
             \A i \in Indices(buildSteps) :
                 buildSteps'[i].excessQuantity =
                     request.settings.quantity * buildSteps[i].excessQuantity
         ]_vars

\* U was built in several batches: the step of B, run once for 7 of its 10,
\* reports 3 per batch, the step of U reports none
C23_Witness ==
    /\ pc = "done"
    /\ request.blueprintTypeId = 107
    /\ request.settings.quantity > 1
    /\ request.settings.componentMe = 0
    /\ buildSteps[1].excessQuantity = 0
    /\ \E i \in Indices(buildSteps) :
        /\ buildSteps[i].productTypeId = TypeB
        /\ buildSteps[i].producedQuantity = 10 * request.settings.quantity
        /\ buildSteps[i].excessQuantity = 3 * request.settings.quantity

\* ------------------------------------------------------------------------
\* Claims about the returned result
\* ------------------------------------------------------------------------
RECURSIVE TimeOfFirst(_, _)
\* the time of the first n steps
TimeOfFirst(steps, n) ==
    IF n = 0 THEN 0 ELSE TimeOfFirst(steps, n - 1) + steps[n].time

RECURSIVE JobCostOfFirst(_, _)
\* the job cost of the first n steps
JobCostOfFirst(steps, n) ==
    IF n = 0 THEN 0 ELSE JobCostOfFirst(steps, n - 1) + steps[n].jobCost

\* C24: in every returned result totalTime is the sum of the steps' times and
\* totalJobCost the sum of their job costs, as the steps are returned (after
\* the post-pass); for the same request, totalTime for numberOfBatches = N is
\* N times totalTime for one batch.
C24_FinalAssembly ==
    /\ pc = "done" =>
        /\ result.totalTime = TimeOfFirst(result.buildSteps, Len(result.buildSteps))
        /\ result.totalJobCost =
               JobCostOfFirst(result.buildSteps, Len(result.buildSteps))
        /\ result.buildSteps = buildSteps
    /\ BothResults =>
        result.totalTime = request.settings.quantity * unitResult.totalTime

\* the totals of three batches of a build with several steps, each with a time
\* and a job cost
C24_Witness ==
    /\ BothResults
    /\ request.settings.quantity = MaxBatches
    /\ Len(result.buildSteps) >= 3
    /\ \A i \in Indices(result.buildSteps) :
        /\ result.buildSteps[i].time > 0
        /\ result.buildSteps[i].jobCost > 0
    /\ result.totalTime > result.buildSteps[1].time
    /\ result.totalTime = MaxBatches * unitResult.totalTime
    /\ unitResult.totalTime > 0

\* ------------------------------------------------------------------------
\* Claims about the network calls of the route
\* ------------------------------------------------------------------------
\* the route has called calculateRecursiveBuild and has started no fetch since
InEngineCall ==
    /\ body # NoBody
    /\ pc \in {"call", "expand", "scale", "assemble", "done", "error"}
    /\ fetched.systemCostIndex # NotFetched

Failed(outcome) == outcome.kind = "throw"

\* every price the response shows is 0
NoPricesShown ==
    /\ \A i \in Indices(response.materials) :
        /\ response.materials[i].buyPrice = 0
        /\ response.materials[i].sellPrice = 0
        /\ response.materials[i].totalBuyPrice = 0
    /\ \A i \in Indices(response.components) :
        /\ response.components[i].buyPrice = 0
        /\ response.components[i].sellPrice = 0
        /\ ~response.components[i].shouldBuy
    /\ \A i \in Indices(response.excessMaterials) :
           response.excessMaterials[i].buyPrice = 0
    /\ response.outputs[1].totalSellPrice = 0
    /\ response.costs.materialsCostBuy = 0
    /\ response.costs.materialsCostSell = 0
    /\ response.costs.excessValue = 0

C25_WitnessPartial ==
    /\ Answered
    /\ Failed(fetched.systemCostIndex)
    /\ ~Failed(fetched.jobBaseCosts)
    /\ ~Failed(fetched.prices)
    /\ response.costs.jobCosts > 0
    /\ response.costs.materialsCostBuy > 0

\* the ledger during the expansion, before the post-pass multiplies it
Expanding == pc = "expand" \/ pc = "scale"

\* C26: during the expansion every ledger entry of a type T made
\* producedQuantity per run holds 0 <= ledger[T] < producedQuantity; an entry
\* grows only when a demand for T has used up all that was banked for T, and
\* then holds what that demand's runs over-produce.
C26_LedgerBound ==
    /\ [](Expanding =>
            \A i \in Indices(excessTracker) :
                /\ HasBlueprintByProduct(excessTracker[i].key)
                /\ excessTracker[i].value >= 0
                /\ excessTracker[i].value <
                       getBlueprintByProduct(excessTracker[i].key).producedQuantity)
    /\ [][ pc = "expand" =>
             \A t \in TypeIds :
                 excessOf(excessTracker', t) > excessOf(excessTracker, t) =>
                     /\ AtMaterial
                     /\ t = NextMaterial.typeId
                     /\ excessOf(excessTracker, t) < NextDemand
                     /\ Len(stack') = Len(stack) + 1
                     /\ excessOf(excessTracker', t) =
                            stack'[Len(stack')].runs
                                * getBlueprintByProduct(t).producedQuantity
                            - (NextDemand - excessOf(excessTracker, t))
         ]_vars

\* B was banked, the bank did not cover the next demand for B, and B was
\* banked again: two steps make B and the ledger holds the second surplus
C26_Witness ==
    /\ pc = "scale"
    /\ request.blueprintTypeId = 107
    /\ Cardinality(StepsMaking(buildSteps, TypeB)) = 2
    /\ \A i \in StepsMaking(buildSteps, TypeB) : buildSteps[i].excessQuantity > 0
    /\ excessOf(excessTracker, TypeB) > 0
    /\ excessOf(excessTracker, TypeB) < 10

\* the units of typeId the steps produce
TotalProduced(steps, typeId) ==
    SumSeq([i \in Indices(steps) |->
               IF steps[i].productTypeId = typeId THEN steps[i].producedQuantity ELSE 0], 1)

\* the component types of the call: those the engine recurses into
ComponentTypes ==
    { t \in TypeIds :
        /\ shouldRecurse(TopActivityId, t)
        /\ t # blueprints[request.blueprintTypeId].productTypeId }

\* the expansion is over: before the post-pass, after it, and in the result
Expanded == pc \in {"scale", "assemble", "done"}

\* C27: when the expansion is over, for every component type T the units the
\* steps producing T produce are the units of T the material lines of all
\* steps ask for plus the ledger entry of T, before the post-pass and after
\* it; the same holds in the returned result with the quantity of T in
\* excessMaterials.
C27_Conservation ==
    /\ Expanded =>
        \A t \in ComponentTypes :
            TotalProduced(buildSteps, t) =
                TotalDemand(buildSteps, t) + excessOf(excessTracker, t)
    /\ pc = "done" =>
        \A t \in ComponentTypes :
            LET listed == { result.excessMaterials[i].quantity :
                              i \in { k \in Indices(result.excessMaterials) :
                                        result.excessMaterials[k].typeId = t } }
                surplus == IF listed = {} THEN 0 ELSE CHOOSE q \in listed : TRUE
            IN  TotalProduced(result.buildSteps, t) =
                    TotalDemand(result.buildSteps, t) + surplus

\* several batches of U: B is asked for by two steps, made by two steps, and
\* some of it is left; A is made as asked
C27_Witness ==
    /\ pc = "done"
    /\ request.blueprintTypeId = 107
    /\ request.settings.quantity > 1
    /\ Cardinality(StepsMaking(buildSteps, TypeB)) = 2
    /\ Cardinality({i \in Indices(buildSteps) : StepDemand(buildSteps[i], TypeB) > 0}) = 2
    /\ excessOf(excessTracker, TypeB) > 0
    /\ TotalProduced(buildSteps, TypeB) > TotalDemand(buildSteps, TypeB)
    /\ TotalProduced(buildSteps, TypeA) = TotalDemand(buildSteps, TypeA)
    /\ TotalDemand(buildSteps, TypeA) > 0

\* the type has a producing blueprint of the activity of the target
EligibleType(t) ==
    /\ t \in DOMAIN blueprintsByProduct
    /\ blueprints[blueprintsByProduct[t]].activityId = TopActivityId

ProductsOf(steps) == {steps[i].productTypeId : i \in Indices(steps)}

\* C28: in a result for an acyclic graph no type is both in rawMaterials and
\* the product of a build step; a material type is handled the same way at
\* every line that asks for it: a line changes rawMaterials exactly when its
\* type is not eligible, and a line of an eligible type is served by the
\* ledger or by a new activation for the type's blueprint.
C28_Partition ==
    /\ []( (pc = "done" /\ AcyclicRequest) =>
             /\ TypeIdsOf(result.rawMaterials) \cap ProductsOf(result.buildSteps) = {}
             /\ \A i \in Indices(result.buildSteps) :
                  \A j \in Indices(result.buildSteps[i].materials) :
                      LET t == result.buildSteps[i].materials[j].typeId
                      IN  IF EligibleType(t)
                          THEN /\ t \notin TypeIdsOf(result.rawMaterials)
                               /\ t \in ProductsOf(result.buildSteps)
                          ELSE /\ t \in TypeIdsOf(result.rawMaterials)
                               /\ t \notin ProductsOf(result.buildSteps) )
    /\ [][ (AtMaterial /\ AcyclicRequest) =>
             LET t == NextMaterial.typeId
             IN  IF EligibleType(t)
                 THEN /\ rawMaterials' = rawMaterials
                      /\ \/ /\ Len(stack') = Len(stack)
                            /\ excessOf(excessTracker', t) =
                                   excessOf(excessTracker, t) - NextDemand
                         \/ /\ Len(stack') = Len(stack) + 1
                            /\ stack'[Len(stack')].bp = blueprintsByProduct[t]
                 ELSE /\ rawMaterials' # rawMaterials
                      /\ t \in MapKeys(rawMaterials')
                      /\ excessTracker' = excessTracker
                      /\ Len(stack') = Len(stack)
         ]_vars

\* the build of U: X is asked for by three steps and is raw, B is asked for by
\* two steps and is built
C28_Witness ==
    /\ pc = "done"
    /\ request.blueprintTypeId = 107
    /\ Cardinality({i \in Indices(buildSteps) : StepDemand(buildSteps[i], TypeX) > 0}) = 3
    /\ Cardinality({i \in Indices(buildSteps) : StepDemand(buildSteps[i], TypeB) > 0}) = 2
    /\ TypeX \in TypeIdsOf(result.rawMaterials)
    /\ TypeX \notin ProductsOf(result.buildSteps)
    /\ TypeB \in ProductsOf(result.buildSteps)
    /\ TypeB \notin TypeIdsOf(result.rawMaterials)

\* the types with a surplus in the ledger
SurplusTypes == {t \in TypeIds : excessOf(excessTracker, t) > 0}

\* C29: excessMaterials lists exactly the types whose ledger entry is > 0 when
\* the result is assembled, each once, with the entry as quantity, which is
\* the entry left by the expansion of one batch times numberOfBatches; a type
\* whose surplus was used up is not listed and no quantity is <= 0.
C29_ExcessOutput ==
    /\ [](pc = "done" =>
            LET ex == result.excessMaterials
            IN  /\ TypeIdsOf(ex) = SurplusTypes
                /\ \A i, j \in Indices(ex) : ex[i].typeId = ex[j].typeId => i = j
                /\ \A i \in Indices(ex) :
                    /\ ex[i].quantity = excessOf(excessTracker, ex[i].typeId)
                    /\ ex[i].quantity > 0
                    /\ ex[i].volume = unitVolume(ex[i].typeId) * ex[i].quantity)
    /\ [][ pc = "scale" =>
             \A t \in TypeIds :
                 excessOf(excessTracker', t) =
                     (IF request.settings.quantity > 1 THEN request.settings.quantity ELSE 1)
                         * excessOf(excessTracker, t)
         ]_vars
    /\ [][ pc = "assemble" => excessTracker' = excessTracker ]_vars
    /\ [](BothResults =>
            /\ Len(result.excessMaterials) = Len(unitResult.excessMaterials)
            /\ \A i \in Indices(result.excessMaterials) :
                /\ result.excessMaterials[i].typeId = unitResult.excessMaterials[i].typeId
                /\ result.excessMaterials[i].quantity =
                       request.settings.quantity * unitResult.excessMaterials[i].quantity)

\* several batches: one type was banked and used up, and is not listed;
\* another is listed with its surplus
C29_Witness ==
    /\ pc = "done"
    /\ request.settings.quantity > 1
    /\ \E i \in Indices(excessTracker) :
        /\ excessTracker[i].value = 0
        /\ excessTracker[i].key \notin TypeIdsOf(result.excessMaterials)
    /\ \E i \in Indices(result.excessMaterials) :
        /\ result.excessMaterials[i].quantity >= request.settings.quantity
        /\ result.excessMaterials[i].volume > 0

\* the most recently created step producing typeId: steps are put in front
LatestStepMaking(steps, typeId) ==
    CHOOSE i \in StepsMaking(steps, typeId) : \A j \in StepsMaking(steps, typeId) : i <= j

\* the quantity excessMaterials lists for typeId, 0 when it lists none
ListedExcess(typeId) ==
    SumSeq([i \in Indices(result.excessMaterials) |->
               IF result.excessMaterials[i].typeId = typeId
               THEN result.excessMaterials[i].quantity ELSE 0], 1)

\* C30: a step's excessQuantity is set when its activation returns and the
\* expansion never changes a step it has listed, also when a later demand takes
\* that surplus from the ledger; so for every component type T the ledger
\* entry, and the quantity excessMaterials lists for T, is at most the
\* excessQuantity of the most recently created step producing T, and is 0 when
\* no step produces T.
C30_ExcessSnapshot ==
    /\ [][ pc = "expand" =>
             /\ Len(buildSteps') >= Len(buildSteps)
             /\ \A i \in Indices(buildSteps) :
                    buildSteps'[i + Len(buildSteps') - Len(buildSteps)] = buildSteps[i]
         ]_vars
    /\ [](Expanded =>
            \A t \in ComponentTypes :
                IF StepsMaking(buildSteps, t) = {}
                THEN excessOf(excessTracker, t) = 0
                ELSE excessOf(excessTracker, t) <=
                         buildSteps[LatestStepMaking(buildSteps, t)].excessQuantity)
    /\ [](pc = "done" =>
            \A t \in ComponentTypes :
                IF StepsMaking(result.buildSteps, t) = {}
                THEN ListedExcess(t) = 0
                ELSE ListedExcess(t) <=
                         result.buildSteps[LatestStepMaking(result.buildSteps, t)].excessQuantity)

\* the excess listed for B is strictly below what the last step of B reports:
\* a later demand took part of the surplus, the step still shows all of it
C30_Witness ==
    /\ pc = "done"
    /\ request.blueprintTypeId = 107
    /\ TypeB \in ComponentTypes
    /\ ListedExcess(TypeB) > 0
    /\ ListedExcess(TypeB) <
           result.buildSteps[LatestStepMaking(result.buildSteps, TypeB)].excessQuantity
    /\ result.buildSteps[LatestStepMaking(result.buildSteps, TypeB)].excessQuantity
           = 3 * request.settings.quantity

\* a surplus that a later demand used up: the type is not listed while its
\* step reports the surplus
C30_WitnessUsedUp ==
    /\ pc = "done"
    /\ \E t \in ComponentTypes :
        /\ StepsMaking(result.buildSteps, t) # {}
        /\ ListedExcess(t) = 0
        /\ result.buildSteps[LatestStepMaking(result.buildSteps, t)].excessQuantity > 0

====
